---- MODULE Spec2Model ----
(***************************************************************************)
(* Model of the DuckDB dataset storage driver of karna                     *)
(* (src/engine/src/driver/duckdb): identifier sanitizer, value codec,      *)
(* connection pool, driver construction, create_table / query / drop_table.*)
(* Names, file names and identifiers are sequences of one-character        *)
(* strings, so that the string operations of the code (split, join,        *)
(* starts_with, ends_with, replace, slicing) are computed, not assumed.    *)
(***************************************************************************)
EXTENDS Integers, Sequences, FiniteSets, TLC

(***************************************************************************)
(* Bounds of the model                                                     *)
(***************************************************************************)
\* connections in the pool (Config::pool_size, any value > 0; default 4)
PoolSize == 2
\* operations started and process restarts over one run of the model
MaxCalls == 3
\* length up to which every file name over NameChars is given to the sanitizer
MaxNameLen == 3

(***************************************************************************)
(* Characters and strings                                                  *)
(***************************************************************************)
Lower == {"a","b","c","d","e","f","g","h","i","j","k","l","m",
          "n","o","p","q","r","s","t","u","v","w","x","y","z"}
Upper == {"A","B","C","D","E","F","G","H","I","J","K","L","M",
          "N","O","P","Q","R","S","T","U","V","W","X","Y","Z"}
Digit == {"0","1","2","3","4","5","6","7","8","9"}

\* char::is_ascii_alphanumeric
is_ascii_alphanumeric(c) == c \in Lower \cup Upper \cup Digit

\* char::is_ascii_digit
is_ascii_digit(c) == c \in Digit

Rep(c, n) == [i \in 1..n |-> c]

Range(seq) == {seq[i] : i \in 1..Len(seq)}

\* str::starts_with / str::ends_with
starts_with(s, p) == Len(s) >= Len(p) /\ SubSeq(s, 1, Len(p)) = p
ends_with(s, p) == Len(s) >= Len(p) /\ SubSeq(s, Len(s) - Len(p) + 1, Len(s)) = p

\* str::replace(p, ""): every non-overlapping occurrence of p removed, left to right
RECURSIVE remove_all(_, _)
remove_all(s, p) ==
    IF Len(s) < Len(p) \/ Len(p) = 0 THEN s
    ELSE IF SubSeq(s, 1, Len(p)) = p THEN remove_all(SubSeq(s, Len(p) + 1, Len(s)), p)
    ELSE <<Head(s)>> \o remove_all(Tail(s), p)

\* str::split(sep) followed by filter(|s| !s.is_empty()): the non-empty pieces,
\* i.e. the maximal runs without sep, in order
split_nonempty(s, sep) ==
    LET starts == {i \in 1..Len(s) : s[i] # sep /\ (i = 1 \/ s[i - 1] = sep)}
        nth(k) == CHOOSE i \in starts : Cardinality({j \in starts : j < i}) = k - 1
        last(i) == CHOOSE j \in i..Len(s) :
                       /\ \A m \in i..j : s[m] # sep
                       /\ (j = Len(s) \/ s[j + 1] = sep)
    IN [k \in 1..Cardinality(starts) |-> SubSeq(s, nth(k), last(nth(k)))]

\* split('_').filter(|s| !s.is_empty())
segments(s) == split_nonempty(s, "_")

\* [String]::join(sep)
RECURSIVE join_with(_, _)
join_with(segs, sep) ==
    IF segs = <<>> THEN <<>>
    ELSE IF Len(segs) = 1 THEN segs[1]
    ELSE segs[1] \o sep \o join_with(Tail(segs), sep)

\* [&str]::join("_")
join(segs) == join_with(segs, <<"_">>)

\* str::rfind('_') as a 1-based index, 0 when there is none
rfind_underscore(s) ==
    LET hits == {i \in 1..Len(s) : s[i] = "_"}
    IN IF hits = {} THEN 0 ELSE CHOOSE i \in hits : \A j \in hits : j <= i

(***************************************************************************)
(* Identifier sanitizer (utils.rs)                                         *)
(***************************************************************************)
MAX_LENGTH == 63

\* the sanitized string as it is, even when it starts with a digit
sanitized_part_as_is(filename) ==
    LET mapped == [i \in 1..Len(filename) |->
                     IF is_ascii_alphanumeric(filename[i]) THEN filename[i] ELSE "_"]
    IN join(segments(mapped))

\* the part of sanitize_to_sql_name before the suffix is appended
sanitized_part(filename) ==
    LET mapped == [i \in 1..Len(filename) |->
                     IF is_ascii_alphanumeric(filename[i]) THEN filename[i] ELSE "_"]
        sanitized == join(segments(mapped))
    IN IF sanitized # <<>> /\ is_ascii_digit(sanitized[1])
       THEN <<"n">> \o sanitized
       ELSE sanitized

\* sanitize_to_sql_name, with the random suffix as a parameter
sanitize_to_sql_name(filename, suffix) ==
    LET valid_start == sanitized_part(filename) \o <<"_">> \o suffix
    IN IF Len(valid_start) > MAX_LENGTH
       THEN LET truncated == SubSeq(valid_start, 1, MAX_LENGTH)
                pos == rfind_underscore(truncated)
            IN IF pos > 1 THEN SubSeq(valid_start, 1, pos - 1) ELSE truncated
       ELSE valid_start

(***************************************************************************)
(* Value codec (utils.rs).  A native value is a record tagged by its       *)
(* duckdb::types::Value variant; a JSON value is a record tagged by j.     *)
(* A JSON string is a sequence of characters, a JSON object a function     *)
(* from its keys.                                                          *)
(***************************************************************************)
JNull == [j |-> "null"]
JBool(b) == [j |-> "bool", b |-> b]
JNumber(n) == [j |-> "number", n |-> n]
JString(s) == [j |-> "string", s |-> s]
JArray(a) == [j |-> "array", a |-> a]
JObject(o) == [j |-> "object", o |-> o]

\* Option<T>
None == [some |-> FALSE, v |-> 0]
Some(x) == [some |-> TRUE, v |-> x]

Ok(v) == [ok |-> TRUE, json |-> v]
ConvErr(m) == [ok |-> FALSE, message |-> m]

\* Rust `as` casts of the unsigned integer arms (u8 as i8, u16 as i16, u32 as i32,
\* u64 as i64): the bits reinterpreted.  The model's integers stay below 2^31, where
\* the 32- and 64-bit casts change nothing.
as_signed(i, bits) ==
    IF bits <= 16
    THEN (IF i >= 2 ^ (bits - 1) THEN i - 2 ^ bits ELSE i)
    ELSE i

\* u64 / i64 / i128 to_string: the decimal digits
DigitChar(d) == CASE d = 0 -> "0" [] d = 1 -> "1" [] d = 2 -> "2" [] d = 3 -> "3"
                  [] d = 4 -> "4" [] d = 5 -> "5" [] d = 6 -> "6" [] d = 7 -> "7"
                  [] d = 8 -> "8" [] d = 9 -> "9"
RECURSIVE nat_to_string(_)
nat_to_string(n) ==
    IF n < 10 THEN <<DigitChar(n)>> ELSE Append(nat_to_string(n \div 10), DigitChar(n % 10))
int_to_string(n) == IF n < 0 THEN <<"-">> \o nat_to_string(-n) ELSE nat_to_string(n)

\* bool::to_string
bool_to_string(b) == IF b THEN <<"t","r","u","e">> ELSE <<"f","a","l","s","e">>

\* float_to_json: Number::from_f64 is None for NaN and the infinities
float_to_json(f) == IF f.cls = "finite" THEN JNumber(f.x) ELSE JNull

\* i64 amounts of the temporal arms are kept as four 16-bit limbs, most
\* significant first, in two's complement: the arithmetic of the code on them
\* (checked or wrapping multiplication, truncating and Euclidean division) is
\* computed limb by limb
Limb == 65536

I32_MAX == 2147483647
I32_MIN == -I32_MAX - 1

\* the limbs of a small integer 0 <= n < 2^31, and of its negation
i64_of(n) == <<0, 0, n \div Limb, n % Limb>>

\* unsigned limbs times m plus carry, for m <= 1024: the limbs, and the carry out
RECURSIVE umul(_, _, _)
umul(x, m, carry) ==
    IF x = <<>> THEN [limbs |-> <<>>, carry |-> carry]
    ELSE LET p == x[Len(x)] * m + carry
             rest == umul(SubSeq(x, 1, Len(x) - 1), m, p \div Limb)
         IN [limbs |-> Append(rest.limbs, p % Limb), carry |-> rest.carry]

\* unsigned limbs divided by d, for d <= 1000: the quotient and the remainder
RECURSIVE udivmod(_, _, _)
udivmod(x, d, rem) ==
    IF x = <<>> THEN [limbs |-> <<>>, rem |-> rem]
    ELSE LET cur == rem * Limb + x[1]
             rest == udivmod(Tail(x), d, cur % d)
         IN [limbs |-> <<cur \div d>> \o rest.limbs, rem |-> rest.rem]

\* unsigned limbs divided by the product of the divisors ds, one after the other
RECURSIVE udiv_by(_, _)
udiv_by(x, ds) ==
    IF ds = <<>> THEN [limbs |-> x, rem |-> 0]
    ELSE LET a == udivmod(x, ds[1], 0)
             b == udiv_by(a.limbs, Tail(ds))
         IN [limbs |-> b.limbs, rem |-> a.rem + ds[1] * b.rem]

\* limbs plus a small number, wrapping
RECURSIVE uadd(_, _)
uadd(x, a) ==
    IF x = <<>> THEN <<>>
    ELSE LET s == x[Len(x)] + a
         IN Append(uadd(SubSeq(x, 1, Len(x) - 1), s \div Limb), s % Limb)

is_negative(x) == x[1] >= Limb \div 2
wrapping_neg(x) == uadd([i \in 1..Len(x) |-> Limb - 1 - x[i]], 1)
unsigned_abs(x) == IF is_negative(x) THEN wrapping_neg(x) ELSE x
i64_neg_of(n) == wrapping_neg(i64_of(n))

I64_MAX == <<Limb \div 2 - 1, Limb - 1, Limb - 1, Limb - 1>>
I64_MIN == <<Limb \div 2, 0, 0, 0>>

\* the value of limbs that hold a number 0 <= n < 2^30, and -1 for larger ones
small(x) ==
    IF \A i \in 1..(Len(x) - 2) : x[i] = 0
    THEN (IF x[Len(x) - 1] < Limb \div 4 THEN x[Len(x) - 1] * Limb + x[Len(x)] ELSE -1)
    ELSE -1

\* the factors, each at most 1000, of the multipliers and divisors of the code
Factors(n) ==
    CASE n = 1000 -> <<1000>>
      [] n = 1000000 -> <<1000, 1000>>
      [] n = 1000000000 -> <<1000, 1000, 1000>>
      [] n = 86400 -> <<675, 128>>

\* unsigned limbs times every factor in turn
RECURSIVE umul_by(_, _)
umul_by(x, ms) == IF ms = <<>> THEN x ELSE umul_by(umul(x, ms[1], 0).limbs, Tail(ms))

\* i64 `*`: the product wrapped to 64 bits, and whether the true product is
\* outside i64, which panics in a build with overflow checks
mul_i64(x, n) ==
    LET p == umul_by(<<0, 0>> \o unsigned_abs(x), Factors(n))
        low == SubSeq(p, 3, 6)
        fits == /\ p[1] = 0 /\ p[2] = 0
                /\ IF is_negative(x) THEN low[1] < Limb \div 2 \/ low = I64_MIN
                                     ELSE low[1] < Limb \div 2
    IN [overflow |-> ~fits, v |-> IF is_negative(x) THEN wrapping_neg(low) ELSE low]

\* i64 `/` and `%`: the quotient truncated toward zero, the remainder with the
\* sign of the dividend
div_i64(x, n) ==
    LET d == udiv_by(unsigned_abs(x), Factors(n))
    IN [q |-> IF is_negative(x) THEN wrapping_neg(d.limbs) ELSE d.limbs,
        r |-> IF is_negative(x) THEN -d.rem ELSE d.rem]

\* i64::div_euclid and rem_euclid: the remainder is never negative
div_euclid(x, n) ==
    LET d == udiv_by(unsigned_abs(x), Factors(n))
    IN IF ~is_negative(x) THEN [q |-> d.limbs, r |-> d.rem]
       ELSE IF d.rem = 0 THEN [q |-> wrapping_neg(d.limbs), r |-> 0]
       ELSE [q |-> wrapping_neg(uadd(d.limbs, 1)), r |-> n - d.rem]

\* i32 `+`: the sum wrapped to 32 bits, and whether the true sum is outside i32
add_i32(a, b) ==
    IF b > 0 /\ a > I32_MAX - b THEN [overflow |-> TRUE, v |-> (a + I32_MIN) + (b + I32_MIN)]
    ELSE IF b < 0 /\ a < I32_MIN - b THEN [overflow |-> TRUE, v |-> (a - I32_MIN) + (b - I32_MIN)]
    ELSE [overflow |-> FALSE, v |-> a + b]

\* TimeUnit::to_micros of the duckdb crate: value * 1_000_000, value * 1000,
\* value, value / 1000
to_micros(unit, value) ==
    CASE unit = "Second" -> mul_i64(value, 1000000)
      [] unit = "Millisecond" -> mul_i64(value, 1000)
      [] unit = "Microsecond" -> [overflow |-> FALSE, v |-> value]
      [] unit = "Nanosecond" -> [overflow |-> FALSE, v |-> div_i64(value, 1000).q]

\* format!("{:0width$}", n) for n >= 0
zero_padded(n, width) ==
    LET digits == nat_to_string(n)
    IN IF Len(digits) >= width THEN digits ELSE Rep("0", width - Len(digits)) \o digits

\* the fraction chrono prints after the seconds: none, 3, 6 or 9 digits
fraction_to_string(nano) ==
    IF nano = 0 THEN <<>>
    ELSE IF nano % 1000000 = 0 THEN <<".">> \o zero_padded(nano \div 1000000, 3)
    ELSE IF nano % 1000 = 0 THEN <<".">> \o zero_padded(nano \div 1000, 6)
    ELSE <<".">> \o zero_padded(nano, 9)

\* NaiveTime's Display: HH:MM:SS and the fraction
time_to_string(secs, nano) ==
    zero_padded(secs \div 3600, 2) \o <<":">> \o zero_padded((secs \div 60) % 60, 2)
      \o <<":">> \o zero_padded(secs % 60, 2) \o fraction_to_string(nano)

\* NaiveDate::from_ymd(year, 1, 1).num_days_from_ce()
days_from_ce(year) ==
    LET y == year - 1
    IN 365 * y + y \div 4 - y \div 100 + y \div 400 + 1

\* chrono's NaiveDate::MIN and MAX: the years -262143 to 262142
MIN_YEAR == -262143
MAX_YEAR == 262142

is_leap(year) == (year % 4 = 0 /\ year % 100 # 0) \/ year % 400 = 0

\* NaiveDate::from_num_days_from_ce_opt: the year, month and day of a day
\* number, None outside chrono's range
from_num_days_from_ce_opt(days) ==
    IF days < days_from_ce(MIN_YEAR) \/ days >= days_from_ce(MAX_YEAR + 1) THEN None
    ELSE LET d0 == days - 1
             cycle == d0 \div 146097
             doc == d0 % 146097
             c100 == IF doc \div 36524 > 3 THEN 3 ELSE doc \div 36524
             r100 == doc - c100 * 36524
             c4 == r100 \div 1461
             r4 == r100 % 1461
             c1 == IF r4 \div 365 > 3 THEN 3 ELSE r4 \div 365
             doy == r4 - c1 * 365
             year == 1 + 400 * cycle + 100 * c100 + 4 * c4 + c1
             feb == IF is_leap(year) THEN 29 ELSE 28
             mlen == <<31, feb, 31, 30, 31, 30, 31, 31, 30, 31, 30, 31>>
             before(m) == IF m = 1 THEN 0
                          ELSE LET upto[k \in 1..12] ==
                                      IF k = 1 THEN mlen[1] ELSE upto[k - 1] + mlen[k]
                               IN upto[m - 1]
             month == CHOOSE m \in 1..12 : before(m) <= doy /\ doy < before(m) + mlen[m]
         IN Some([year |-> year, month |-> month, day |-> doy - before(month) + 1])

\* NaiveDate's Display: YYYY-MM-DD, the year with a sign outside 0..9999
date_to_string(date) ==
    LET year == IF date.year \in 0..9999 THEN zero_padded(date.year, 4)
                ELSE IF date.year < 0 THEN <<"-">> \o zero_padded(-date.year, 4)
                ELSE <<"+">> \o zero_padded(date.year, 4)
    IN year \o <<"-">> \o zero_padded(date.month, 2) \o <<"-">> \o zero_padded(date.day, 2)

UNIX_EPOCH_DAY == 719163

\* the date-time of a date in chrono's range, at a second of the day
date_time_on(date, secs, nsecs) ==
    IF ~date.some THEN None
    ELSE Some([date |-> date.v, secs |-> secs, nano |-> nsecs])

\* the date of the day number d.q since 1970-01-01 and the second d.r of that day
date_time_of(d, nsecs) ==
    IF small(unsigned_abs(d.q)) < 0 THEN None
    ELSE date_time_on(
             from_num_days_from_ce_opt(
                 (IF is_negative(d.q) THEN -small(unsigned_abs(d.q))
                  ELSE small(unsigned_abs(d.q))) + UNIX_EPOCH_DAY),
             d.r, nsecs)

\* DateTime::from_timestamp(secs, nsecs): the date and the second of the day
from_timestamp(secs, nsecs) == date_time_of(div_euclid(secs, 86400), nsecs)

\* DateTime::format("%+").to_string() in UTC
format_rfc3339(dt) ==
    date_to_string(dt.date) \o <<"T">> \o time_to_string(dt.secs, dt.nano)
      \o <<"+", "0", "0", ":", "0", "0">>

\* DateTime::from_timestamp(d.q, d.r * nanos_per_unit) for the quotient and
\* remainder d of the amount by the units in a second
from_timestamp_parts(d, nanos_per_unit) == from_timestamp(d.q, d.r * nanos_per_unit)

\* .context(..)? and dt.format("%+").to_string()
timestamp_to_json(dt) ==
    IF ~dt.some THEN ConvErr("Failed to convert timestamp")
    ELSE Ok(JString(format_rfc3339(dt.v)))

\* convert_timestamp
convert_timestamp(unit, amount) ==
    timestamp_to_json(
        CASE unit = "Second" -> from_timestamp(amount, 0)
          [] unit = "Millisecond" -> from_timestamp_parts(div_euclid(amount, 1000), 1000000)
          [] unit = "Microsecond" -> from_timestamp_parts(div_euclid(amount, 1000000), 1000)
          [] unit = "Nanosecond" -> from_timestamp_parts(div_euclid(amount, 1000000000), 1))

\* .context(..)? and date.to_string()
date_to_json(date) ==
    IF ~date.some THEN ConvErr("Failed to convert Date32")
    ELSE Ok(JString(date_to_string(date.v)))

\* convert_date32, the sum days + 719163 wrapped to 32 bits
convert_date32(days) ==
    date_to_json(from_num_days_from_ce_opt(add_i32(days, UNIX_EPOCH_DAY).v))

\* NaiveTime::from_num_seconds_from_midnight_opt(seconds.try_into()?,
\* nanos.try_into()?) for seconds = d.q and nanos = d.r * 1000, as a string
naive_time(d) ==
    IF is_negative(d.q) \/ d.q[1] # 0 \/ d.q[2] # 0
    THEN ConvErr("Failed to convert seconds")
    ELSE IF d.r * 1000 < 0 THEN ConvErr("Failed to convert nanoseconds")
    ELSE IF small(d.q) < 0 \/ small(d.q) >= 86400
    THEN ConvErr("Failed to create NaiveTime")
    ELSE Ok(JString(time_to_string(small(d.q), d.r * 1000)))

\* convert_time64, the product of to_micros wrapped to 64 bits
convert_time64(unit, amount) ==
    naive_time(div_i64(to_micros(unit, amount).v, 1000000))

\* Map::insert on a JSON object: a key already present has its value replaced
object_insert(o, k, v) == [x \in DOMAIN o \cup {k} |-> IF x = k THEN v ELSE o[x]]

EmptyObject == [x \in {} |-> JNull]

\* the first failed conversion of a sequence of results, or 0
first_err(rs) ==
    LET bad == {i \in 1..Len(rs) : ~rs[i].ok}
    IN IF bad = {} THEN 0 ELSE CHOOSE i \in bad : \A k \in bad : i <= k

\* .collect::<Result<Vec<_>>>().map(JsonValue::Array): the first error, or the
\* array of the converted items
collect_results(rs) ==
    IF first_err(rs) # 0 THEN rs[first_err(rs)]
    ELSE Ok(JArray([i \in 1..Len(rs) |-> rs[i].json]))

\* the string a converted map key becomes in convert_map
key_string(k) ==
    CASE k.json.j = "string" -> k.json.s
      [] k.json.j = "bool" -> bool_to_string(k.json.b)
      [] k.json.j = "number" -> int_to_string(k.json.n)
      [] k.json.j = "null" -> <<"n","u","l","l">>

\* whether a converted map key is one convert_map can stringify
is_key(k) == k.ok /\ k.json.j \in {"string", "bool", "number", "null"}

RECURSIVE duckdb_value_to_json_value(_)
RECURSIVE struct_insert(_, _, _)
RECURSIVE map_key(_, _, _)
RECURSIVE map_insert(_, _, _, _)
RECURSIVE arith_overflow(_)
RECURSIVE struct_fold(_, _)
RECURSIVE map_fold(_, _)

\* convert_list
convert_list(list) ==
    collect_results([i \in 1..Len(list) |-> duckdb_value_to_json_value(list[i])])

\* the loop of convert_struct: items are <<key, value>> pairs, map the object so far
struct_fold(items, map) ==
    IF items = <<>> THEN Ok(JObject(map))
    ELSE struct_insert(items, map, duckdb_value_to_json_value(Head(items)[2]))

\* map.insert(key.clone(), r?) and the rest of the loop
struct_insert(items, map, r) ==
    IF ~r.ok THEN r
    ELSE struct_fold(Tail(items), object_insert(map, Head(items)[1], r.json))

convert_struct(items) == struct_fold(items, EmptyObject)

\* the loop of convert_map: the key is converted first and then stringified
map_fold(items, map) ==
    IF items = <<>> THEN Ok(JObject(map))
    ELSE map_key(items, map, duckdb_value_to_json_value(Head(items)[1]))

\* the match on the converted key k, then the conversion of the value
map_key(items, map, k) ==
    IF ~k.ok THEN k
    ELSE IF ~is_key(k) THEN ConvErr("Map key must be convertible to string")
    ELSE map_insert(items, map, key_string(k), duckdb_value_to_json_value(Head(items)[2]))

\* map.insert(key_string, v?) and the rest of the loop
map_insert(items, map, key, v) ==
    IF ~v.ok THEN v
    ELSE map_fold(Tail(items), object_insert(map, key, v.json))

convert_map(items) == map_fold(items, EmptyObject)

duckdb_value_to_json_value(value) ==
    CASE value.t = "Null" -> Ok(JNull)
      [] value.t = "Boolean" -> Ok(JBool(value.b))
      [] value.t = "TinyInt" -> Ok(JNumber(value.i))
      [] value.t = "UTinyInt" -> Ok(JNumber(as_signed(value.i, 8)))
      [] value.t = "SmallInt" -> Ok(JNumber(value.i))
      [] value.t = "USmallInt" -> Ok(JNumber(as_signed(value.i, 16)))
      [] value.t = "Int" -> Ok(JNumber(value.i))
      [] value.t = "UInt" -> Ok(JNumber(as_signed(value.i, 32)))
      [] value.t = "BigInt" -> Ok(JNumber(value.i))
      [] value.t = "UBigInt" -> Ok(JNumber(as_signed(value.i, 64)))
      [] value.t \in {"Float", "Double"} -> Ok(float_to_json(value.f))
      [] value.t \in {"Text", "Enum"} -> Ok(JString(value.s))
      [] value.t = "Blob" -> Ok(JArray([i \in 1..Len(value.bytes) |-> JNumber(value.bytes[i])]))
      [] value.t = "Timestamp" -> convert_timestamp(value.unit, value.amount)
      [] value.t = "Date32" -> convert_date32(value.days)
      [] value.t = "Time64" -> convert_time64(value.unit, value.amount)
      [] value.t = "Interval" ->
           Ok(JObject(object_insert(object_insert(object_insert(EmptyObject,
                <<"m","o","n","t","h","s">>, JNumber(value.months)),
                <<"d","a","y","s">>, JNumber(value.days)),
                <<"n","a","n","o","s">>, JNumber(value.nanos))))
      [] value.t \in {"List", "Array"} -> convert_list(value.list)
      [] value.t = "Struct" -> convert_struct(value.items)
      [] value.t = "Union" -> duckdb_value_to_json_value(value.inner)
      [] value.t = "Map" -> convert_map(value.items)
      [] value.t \in {"HugeInt", "Decimal"} -> Ok(JString(int_to_string(value.i)))

\* whether a map key converts to a JSON value that convert_map can stringify
key_converts(key) == is_key(duckdb_value_to_json_value(key))

\* whether duckdb_value_to_json_value(value) evaluates an integer operation
\* whose true result is outside its type (days + 719163 in convert_date32,
\* the products of to_micros in convert_time64): a build with overflow checks
\* panics there, a build without them goes on with the wrapped result.
\* Items after the first failed conversion are not converted.
arith_overflow(value) ==
    CASE value.t = "Date32" -> add_i32(value.days, UNIX_EPOCH_DAY).overflow
      [] value.t = "Time64" -> to_micros(value.unit, value.amount).overflow
      [] value.t \in {"List", "Array"} ->
           \E i \in 1..Len(value.list) :
              /\ arith_overflow(value.list[i])
              /\ \A k \in 1..(i - 1) : duckdb_value_to_json_value(value.list[k]).ok
      [] value.t = "Struct" ->
           \E i \in 1..Len(value.items) :
              /\ arith_overflow(value.items[i][2])
              /\ \A k \in 1..(i - 1) : duckdb_value_to_json_value(value.items[k][2]).ok
      [] value.t = "Union" -> arith_overflow(value.inner)
      [] value.t = "Map" ->
           \E i \in 1..Len(value.items) :
              /\ \/ arith_overflow(value.items[i][1])
                 \/ key_converts(value.items[i][1]) /\ arith_overflow(value.items[i][2])
              /\ \A k \in 1..(i - 1) :
                    /\ key_converts(value.items[k][1])
                    /\ duckdb_value_to_json_value(value.items[k][2]).ok
      [] OTHER -> FALSE

\* .map_or(JsonValue::Null, |e| e)
map_or_null(r) == IF r.ok THEN r.json ELSE JNull

\* duckdb_row_to_json: the row's columns converted in order; a failed conversion
\* is replaced by JSON null (map_or(JsonValue::Null, ..)), so the row never fails
duckdb_row_to_json(row) ==
    [i \in 1..Len(row) |-> map_or_null(duckdb_value_to_json_value(row[i]))]

\* the HashMap a row becomes in DuckDBDriver::query: zip(column_names, values)
\* collected in order, a later pair replacing an earlier one with the same key
RECURSIVE zip_collect(_, _, _)
zip_collect(names, values, map) ==
    IF names = <<>> \/ values = <<>> THEN map
    ELSE zip_collect(Tail(names), Tail(values), object_insert(map, Head(names), Head(values)))

\* the rows DuckDBDriver::query returns for a result set [cols, rows]
query_rows(rs) ==
    [i \in 1..Len(rs.rows) |-> zip_collect(rs.cols, duckdb_row_to_json(rs.rows[i]), EmptyObject)]

(***************************************************************************)
(* Inputs of the model                                                     *)
(***************************************************************************)
Callers == {"c1", "c2"}
Conns == 1..PoolSize

DotDb == <<".","d","b">>
MainName == <<"m","a","i","n">>

\* format!("{}/{}.db", db_storage_path, name): the file's name in the storage directory
db_file(name) == name \o DotDb

\* requested table names: "t!", "main" and "main_" followed by 58 "a"
RequestedNames == {<<"t","!">>, MainName, MainName \o <<"_">> \o Rep("a", 58)}

\* the values generate_random_string(6) is drawn from
Suffixes == {<<"a","B","c","1","2","3">>}

\* let name = sanitize_to_sql_name(name), for every requested name and suffix drawn
safe_name == [n \in RequestedNames, x \in Suffixes |-> sanitize_to_sql_name(n, x)]

SafeNames == {safe_name[n, x] : n \in RequestedNames, x \in Suffixes}

\* name arguments of drop_table
DropNames == SafeNames \cup {MainName}

\* SQL text: the statement's kind, the identifier formatted into it, a boot index
Sql(stmt, name, n) == [stmt |-> stmt, name |-> name, n |-> n]
NoSql == Sql("", <<>>, 0)

\* the number of rows the create_sql given with a requested name produces: an
\* empty source for "main", two rows for the others
create_sql_rows(name) == IF name = MainName THEN 0 ELSE 2

\* statements given to query(sql): over a view, the row count of a view, over a
\* base table s.default, and a statement over no dataset
QuerySqls ==
    {Sql("select_view", s, 0) : s \in SafeNames \ {MainName}}
      \cup {Sql(k, safe_name[<<"t","!">>, x], 0) :
               k \in {"select_count", "select_table"}, x \in Suffixes}
      \cup {Sql("select_expr", <<>>, 0)}

\* the fixed boot statements of run_boot_queries, then Config::boot_queries
FixedBootQueries == 10
UserBootQueries == 1
NumBootQueries == FixedBootQueries + UserBootQueries

IntV(i) == [t |-> "Int", i |-> i]
TextV(s) == [t |-> "Text", s |-> s]
NullV == [t |-> "Null"]
NaNV == [t |-> "Double", f |-> [cls |-> "nan", x |-> 0]]
\* map([[1]], [7]): a map whose key is a list
ListKeyMapV == [t |-> "Map",
                items |-> << << [t |-> "List", list |-> <<IntV(1)>>], IntV(7) >> >>]

\* the rows of a source file: columns a, b
SourceRows ==
    [cols |-> << <<"a">>, <<"b">> >>,
     rows |-> << <<IntV(1), TextV(<<"x">>)>>, <<IntV(2), NullV>> >>]

\* result sets the engine answers a query over no dataset with: no row, two columns
\* of one name, a map with a list as key, a NaN
ResultSets ==
    { [cols |-> << <<"a">> >>, rows |-> << >>],
      [cols |-> << <<"a">>, <<"a">> >>, rows |-> << <<IntV(1), IntV(2)>> >>],
      [cols |-> << <<"a">>, <<"b">> >>, rows |-> << <<ListKeyMapV, NaNV>> >>] }

\* the rows a create_sql of n rows produces
select_result(n) ==
    [cols |-> SourceRows.cols, rows |-> SubSeq(SourceRows.rows, 1, n)]

\* the row count of n rows, selected as `count`: one row, one BIGINT column
count_result(n) ==
    [cols |-> << <<"c","o","u","n","t">> >>, rows |-> << <<[t |-> "BigInt", i |-> n]>> >>]

\* the result sets the engine can answer a statement with: a dataset's rows, their
\* count, or whatever a statement over no dataset computes (rows: the rows of the
\* dataset the statement names)
result_sets_for(sql, rows) ==
    CASE sql.stmt \in {"select_view", "select_table"} -> {select_result(rows)}
      [] sql.stmt = "select_count" -> {count_result(rows)}
      [] OTHER -> ResultSets

\* get_row_count of the upload handler: rows[0].get("count").and_then(as_u64);
\* -1 stands for the Internal error "Failed to get row count"
get_row_count(rows) ==
    IF <<"c","o","u","n","t">> \in DOMAIN rows[1]
         /\ rows[1][<<"c","o","u","n","t">>].j = "number"
         /\ rows[1][<<"c","o","u","n","t">>].n >= 0
    THEN rows[1][<<"c","o","u","n","t">>].n
    ELSE -1

(***************************************************************************)
(* State                                                                   *)
(***************************************************************************)
VARIABLES
    files,       \* names of the files in the storage directory
    tables,      \* dataset names whose database holds the table `default`
    content,     \* per dataset name: the number of rows of its table `default`
    attached,    \* aliases attached in the engine (shared by all connections)
    views,       \* views of the primary database
    driver,      \* "down", "boot", "schema", "scan", "attach", "up", "failed"
    bootIdx,     \* the boot statement run_boot_queries executes next
    attachQueue, \* names attach_all_tables has still to attach
    newErr,      \* the error DuckDBDriver::new returned, or NoErr
    newLog,      \* the statements DuckDBDriver::new has executed, and how each ended
    idle,        \* connections in the pool
    call,        \* per caller: the operation it runs and where it is
    calls,       \* operations started and restarts so far
    starts,      \* driver constructions so far
    fresh,       \* no operation was started since the driver was constructed
    live,        \* names returned by a successful create_table, not dropped since
    gone,        \* names a drop_table removed the file of, no file created since
    dropped,     \* names created, then dropped by a later drop_table with success,
                 \* and not produced again since
    intact,      \* <<s, n>>: a create_table whose create_sql produced n rows returned
                 \* s, and no drop_table(s) was called since
    dsnArg,      \* Config: the path given to Config::new
    config,      \* Config: the result of Config::new, then of the builder calls
    setter,      \* Config: the last builder call, its argument and its result
    sanitizeArg, \* sanitizer: the file name given and the random suffix drawn
    sqlName,     \* sanitizer: what sanitize_to_sql_name returned
    native,      \* codec: the native value given to duckdb_value_to_json_value
    converted,   \* codec: how the conversion ended
    sqlArg,      \* SQL generator: the file path and the caller's parameters
    sqlOut,      \* SQL generator: what generate_sql returned
    upload,      \* upload: the uploaded file, the FileSystem source, the build
    flow,        \* upload: the position in upload_file_system, the calls made
    datasets,    \* handlers: the names whose <name>.db the driver has in its directory
    store,       \* handlers: the metadata records of the DatasetStore
    deletion     \* delete: the position in the delete handler, the calls made

driver_vars == <<files, tables, content, attached, views, driver, bootIdx, attachQueue,
                 newErr, newLog, idle, call, calls, starts, fresh, live, gone, dropped, intact>>
config_vars == <<dsnArg, config, setter>>

sanitizer_vars == <<sanitizeArg, sqlName>>

codec_vars == <<native, converted>>
sql_vars == <<sqlArg, sqlOut>>
upload_vars == <<upload, flow, datasets, store, deletion>>

\* the state of the components outside the driver, the configuration, the
\* sanitizer, the codec, the SQL generator and the upload handler
outside == <<config_vars, sanitizer_vars, codec_vars, sql_vars, upload_vars>>
not_config == <<driver_vars, sanitizer_vars, codec_vars, sql_vars, upload_vars>>
not_sanitizer == <<driver_vars, config_vars, codec_vars, sql_vars, upload_vars>>
not_codec == <<driver_vars, config_vars, sanitizer_vars, sql_vars, upload_vars>>
not_sql == <<driver_vars, config_vars, sanitizer_vars, codec_vars, upload_vars>>
not_upload == <<driver_vars, config_vars, sanitizer_vars, codec_vars, sql_vars>>

vars == <<driver_vars, outside>>

engine == <<files, tables, content, attached, views>>
ghosts == <<live, gone, dropped, intact>>
lifecycle == <<driver, bootIdx, attachQueue, newErr, newLog, starts>>

\* Error values (error.rs): DuckDBPrepareStatement has a source and no sql field
Err(kind, sql, path) == [kind |-> kind, sql |-> sql, path |-> path]
NoErr == Err("", NoSql, <<>>)
DuckDBPool == Err("DuckDBPool", NoSql, <<>>)
DuckDBPrepareStatement(sql) == Err("DuckDBPrepareStatement", NoSql, <<>>)
DuckDBExecution(sql) == Err("DuckDBExecution", sql, <<>>)
FileSystem(path) == Err("FileSystem", NoSql, path)

\* the error a failed statement is returned as: .context(DuckDBPrepareStatementSnafu)
\* after prepare, .context(DuckDBExecutionSnafu { sql }) after execute
stmt_error(outcome, sql) ==
    IF outcome = "prepare_err" THEN DuckDBPrepareStatement(sql) ELSE DuckDBExecution(sql)

NoRet == [status |-> "none", name |-> <<>>, rows |-> <<>>, err |-> NoErr]
Idle == [op |-> "none", pc |-> "idle", name |-> <<>>, safe |-> <<>>, sql |-> NoSql,
         conns |-> <<>>, ret |-> NoRet, log |-> <<>>, failed |-> NoSql,
         cols |-> FALSE, rs |-> [cols |-> <<>>, rows |-> <<>>], rows |-> 0,
         whole |-> FALSE, partial |-> FALSE, second |-> FALSE,
         wasLive |-> FALSE]

(***************************************************************************)
(* The embedded engine and the file system, as the driver's statements     *)
(* see them.  A statement is one atomic step and ends "ok", "prepare_err"  *)
(* or "exec_err".                                                          *)
(***************************************************************************)
\* attach '<dir>/s.db' as s: refused when the alias names a database already
\* there (the primary database of main.db is `main`)
attach_outcome(s) == IF s \in attached \cup {MainName} THEN "exec_err" ELSE "ok"

\* create or replace table s.default as (select_sql): the caller's select may
\* fail to bind or fail while it runs
ctas_outcomes(s) ==
    IF s \in attached THEN {"ok", "prepare_err", "exec_err"} ELSE {"prepare_err"}

\* the rows of information_schema.columns for catalog s, table default
has_columns(s) == s \in attached /\ s \in tables

\* create or replace view s as select <columns> from s.default
view_outcome(s, cols) ==
    IF cols /\ s \in attached /\ s \in tables THEN "ok" ELSE "prepare_err"

\* a statement given to query(sql): one over a dataset is prepared when what it
\* names is there; one over no dataset may be refused at prepare or fail when run
query_outcomes(sql) ==
    CASE sql.stmt \in {"select_view", "select_count"} ->
           IF sql.name \in views /\ sql.name \in attached /\ sql.name \in tables
           THEN {"ok"} ELSE {"prepare_err"}
      [] sql.stmt = "select_table" ->
           IF sql.name \in attached /\ sql.name \in tables THEN {"ok"} ELSE {"prepare_err"}
      [] sql.stmt = "select_expr" -> {"ok", "prepare_err", "exec_err"}

\* detach s
detach_outcome(s) == IF s \in attached THEN "ok" ELSE "exec_err"

(***************************************************************************)
(* Connection pool (r2d2): get() hands out an idle connection, waits while *)
(* none is idle and gives up with an error after the pool's timeout; a     *)
(* PooledConnection goes back to the pool when it is dropped.              *)
(***************************************************************************)
\* a pool that hands out any of its connections, idle or not
pool_get_any(idleConns) == Conns

\* the connections Pool::get may hand out: an idle one.  The connections of a pool
\* are interchangeable (same manager, same database), so the one handed out is
\* named as the least idle one; every other choice is a renaming of this one.
pool_get(idleConns) ==
    {k \in idleConns : \A j \in idleConns : k <= j}

Running(c) == call[c].pc \notin {"idle", "returned"}

\* the function returns: its connections are dropped with its scope
Returned(r, ret) == [r EXCEPT !.pc = "returned", !.ret = ret, !.conns = <<>>]
\* operation c returns as record r; the result an earlier operation returned has
\* been taken by its caller
Return(c, r) ==
    [d \in Callers |-> IF d = c THEN r
                       ELSE IF call[d].pc = "returned" THEN Idle ELSE call[d]]
RetErr(e) == [NoRet EXCEPT !.status = "err", !.err = e]
RetOk == [NoRet EXCEPT !.status = "ok"]

Logged(r, sql, ok) == [r EXCEPT !.log = Append(@, [sql |-> sql, ok |-> ok])]

\* self.get_connention()? at pc `at`, going on to `next`
GetConn(c, at, next) ==
    /\ call[c].pc = at
    /\ \/ \E k \in pool_get(idle) :
            /\ idle' = idle \ {k}
            /\ call' = [call EXCEPT ![c].conns = Append(@, k), ![c].pc = next]
       \/ /\ idle = {}
          /\ idle' = idle \cup Range(call[c].conns)
          /\ call' = Return(c, Returned(call[c], RetErr(DuckDBPool)))
    /\ UNCHANGED <<engine, lifecycle, calls, fresh, ghosts, outside>>

\* operation c is entered as record r and asks the pool for its connection at once:
\* it goes on to `next` with an idle connection, or waits at `at` when none is idle
Enter(c, r, at, next) ==
    \/ \E k \in pool_get(idle) :
         /\ idle' = idle \ {k}
         /\ call' = [call EXCEPT ![c] = [r EXCEPT !.conns = <<k>>, !.pc = next]]
    \/ /\ idle = {}
       /\ call' = [call EXCEPT ![c] = [r EXCEPT !.pc = at]]
       /\ UNCHANGED idle

\* a statement of operation c failed: the error is returned with `?`
FailStmt(c, outcome, sql) ==
    /\ idle' = idle \cup Range(call[c].conns)
    /\ call' = Return(c, Returned([Logged(call[c], sql, FALSE) EXCEPT !.failed = sql],
                                  RetErr(stmt_error(outcome, sql))))

(***************************************************************************)
(* Driver construction: DuckDBDriver::new                                  *)
(***************************************************************************)
\* the install and load statements of run_boot_queries
fixed_boot_queries == [i \in 1..FixedBootQueries |-> Sql("boot", <<>>, i)]

\* self.config.boot_queries()
user_boot_queries == [j \in 1..UserBootQueries |-> Sql("boot", <<>>, FixedBootQueries + j)]

\* the caller's boot queries put before the fixed ones
boot_statements_user_first == user_boot_queries \o fixed_boot_queries

\* the vector boot_queries after boot_queries.extend(self.config.boot_queries()..):
\* the fixed statements, then the caller's
boot_statements == fixed_boot_queries \o user_boot_queries

\* an attach_table error that attach_all_tables goes on after
attach_error_skipped(o) == FALSE

\* the `?` of self.attach_table(table_name)?: an error ends attach_all_tables
attach_error_returns(o) == o # "ok"

\* list_db_files: the names ending in .db and not starting with main, .db removed
\* (entries that are directories are skipped; Path::ends_with compares whole path
\* components, so the .wal test never holds for the entry itself)
list_db_files(dir) ==
    {remove_all(f, DotDb) : f \in {g \in dir : ends_with(g, DotDb) /\ ~starts_with(g, MainName)}}

\* Pool::builder().build(manager): the primary database file is opened (and
\* created when missing), the pool is filled
DriverNew ==
    /\ driver = "down"
    /\ starts' = starts + 1
    /\ files' = files \cup {db_file(MainName)}
    /\ views' = IF db_file(MainName) \in files THEN views ELSE {}
    /\ gone' = gone \ {MainName}
    /\ idle' = Conns
    /\ driver' = "boot"
    /\ bootIdx' = 1
    /\ newErr' = NoErr
    /\ newLog' = <<>>
    /\ UNCHANGED <<tables, content, attached, attachQueue, call, calls, fresh, live, dropped, intact, outside>>

\* one turn of the loop of run_boot_queries: conn.execute(query, [])
BootQuery ==
    /\ driver = "boot"
    /\ bootIdx <= NumBootQueries
    /\ \/ /\ bootIdx' = bootIdx + 1
          /\ driver' = IF bootIdx = NumBootQueries THEN "schema" ELSE "boot"
          /\ newLog' = Append(newLog, [sql |-> boot_statements[bootIdx], ok |-> TRUE])
          /\ UNCHANGED newErr
       \/ /\ driver' = "failed"
          /\ newErr' = DuckDBExecution(boot_statements[bootIdx])
          /\ newLog' = Append(newLog, [sql |-> boot_statements[bootIdx], ok |-> FALSE])
          /\ UNCHANGED bootIdx
    /\ UNCHANGED <<engine, attachQueue, starts, idle, call, calls, fresh, ghosts, outside>>

\* the information-schema statement that ends run_boot_queries
InitSchema ==
    /\ driver = "schema"
    /\ \/ /\ driver' = "scan"
          /\ newLog' = Append(newLog, [sql |-> Sql("information_schema", <<>>, 0), ok |-> TRUE])
          /\ UNCHANGED newErr
       \/ \E o \in {"prepare_err", "exec_err"} :
            /\ driver' = "failed"
            /\ newErr' = stmt_error(o, Sql("information_schema", <<>>, 0))
            /\ newLog' = Append(newLog, [sql |-> Sql("information_schema", <<>>, 0), ok |-> FALSE])
    /\ UNCHANGED <<engine, bootIdx, attachQueue, starts, idle, call, calls, fresh, ghosts, outside>>

\* attach_all_tables: the directory is listed
ScanDir ==
    /\ driver = "scan"
    /\ attachQueue' = list_db_files(files)
    /\ driver' = "attach"
    /\ UNCHANGED <<engine, bootIdx, newErr, newLog, starts, idle, call, calls, fresh, ghosts, outside>>

\* attach_all_tables: attach_table for one listed name, in the directory's order;
\* a file the engine cannot open makes it fail
AttachNext ==
    /\ driver = "attach"
    /\ attachQueue # {}
    /\ \E s \in attachQueue :
         \E o \in {attach_outcome(s), "exec_err"} :
            /\ newLog' = Append(newLog, [sql |-> Sql("attach", s, 0), ok |-> o = "ok"])
            /\ IF ~attach_error_returns(o)
               THEN /\ attached' = IF o = "ok" THEN attached \cup {s} ELSE attached
                    /\ attachQueue' = attachQueue \ {s}
                    /\ UNCHANGED <<driver, newErr>>
               ELSE /\ driver' = "failed"
                    /\ newErr' = stmt_error(o, Sql("attach", s, 0))
                    /\ UNCHANGED <<attached, attachQueue>>
    /\ UNCHANGED <<files, tables, content, views, bootIdx, starts, idle, call, calls, fresh, ghosts, outside>>

\* DuckDBDriver::new returns Ok(driver)
DriverUp ==
    /\ driver = "attach"
    /\ attachQueue = {}
    /\ driver' = "up"
    /\ fresh' = TRUE
    /\ UNCHANGED <<engine, bootIdx, attachQueue, newErr, newLog, starts, idle, call, calls, ghosts, outside>>

\* the process ends: the engine's attachments and the pool are gone, the files stay
Shutdown ==
    /\ driver \in {"up", "failed"}
    /\ calls < MaxCalls
    /\ calls' = calls + 1
    /\ \A c \in Callers : ~Running(c)
    /\ driver' = "down"
    /\ attached' = {}
    /\ attachQueue' = {}
    /\ idle' = {}
    /\ call' = [c \in Callers |-> Idle]
    /\ fresh' = FALSE
    /\ UNCHANGED <<files, tables, content, views, bootIdx, newErr, newLog, starts, ghosts, outside>>

(***************************************************************************)
(* create_table(name, create_sql)                                          *)
(***************************************************************************)
\* a create_table that answers with the name it was asked for
create_table_return_requested(name, safe) == name

\* the value create_table returns on success: Ok(name), name being the sanitized one
create_table_return(name, safe) == safe

CanCall(c) == driver = "up" /\ ~Running(c) /\ calls < MaxCalls

CallCreateTable(c) ==
    /\ CanCall(c)
    /\ \E name \in RequestedNames, suffix \in Suffixes :
         /\ Enter(c, [Idle EXCEPT !.op = "create_table", !.name = name,
                                  !.safe = safe_name[name, suffix],
                                  !.rows = create_sql_rows(name)],
                  "ct_get_conn", "ct_attach")
         /\ dropped' = dropped \ {safe_name[name, suffix]}
    /\ calls' = calls + 1
    /\ fresh' = FALSE
    /\ UNCHANGED <<engine, lifecycle, live, gone, intact, outside>>

CtGetConn(c) == GetConn(c, "ct_get_conn", "ct_attach")

\* attach '<dir>/<name>.db' as <name>; a file that is not there is created
CtAttach(c) ==
    /\ call[c].pc = "ct_attach"
    /\ LET s == call[c].safe
           sql == Sql("attach", s, 0)
           o == attach_outcome(s)
       IN IF o = "ok"
          THEN /\ attached' = attached \cup {s}
               /\ files' = files \cup {db_file(s)}
               /\ tables' = IF db_file(s) \in files THEN tables ELSE tables \ {s}
               /\ content' = IF db_file(s) \in files THEN content
                                                       ELSE [content EXCEPT ![s] = 0]
               /\ gone' = gone \ {s}
               /\ dropped' = dropped \ {s}
               /\ call' = [d \in Callers |->
                             IF d = c
                               THEN [Logged(call[c], sql, TRUE) EXCEPT !.pc = "ct_create"]
                             ELSE IF call[d].op = "drop_table" /\ call[d].name = s
                               THEN [call[d] EXCEPT !.wasLive = FALSE]
                             ELSE call[d]]
               /\ UNCHANGED idle
          ELSE /\ FailStmt(c, o, sql)
               /\ UNCHANGED <<attached, files, tables, content, gone, dropped>>
    /\ UNCHANGED <<views, lifecycle, calls, fresh, live, intact, outside>>

\* create or replace table <name>.default as (<create_sql>)
CtCreate(c) ==
    /\ call[c].pc = "ct_create"
    /\ LET s == call[c].safe
           sql == Sql("create_table", s, 0)
       IN \E o \in ctas_outcomes(s) :
            IF o = "ok"
            THEN /\ tables' = tables \cup {s}
                 /\ content' = [content EXCEPT ![s] = call[c].rows]
                 /\ call' = [call EXCEPT ![c] =
                                [Logged(@, sql, TRUE) EXCEPT !.pc = "ct_cols_get_conn"]]
                 /\ UNCHANGED idle
            ELSE /\ FailStmt(c, o, sql)
                 /\ UNCHANGED <<tables, content>>
    /\ UNCHANGED <<files, attached, views, lifecycle, calls, fresh, ghosts, outside>>

\* generate_select_query asks the pool for a connection of its own
CtColsGetConn(c) == GetConn(c, "ct_cols_get_conn", "ct_columns")

\* generate_select_query: the column list is read and its connection dropped
CtColumns(c) ==
    /\ call[c].pc = "ct_columns"
    /\ LET s == call[c].safe
           n == Len(call[c].conns)
       IN /\ idle' = idle \cup {call[c].conns[n]}
          /\ call' = [call EXCEPT ![c] =
                        [Logged(@, Sql("columns", s, 0), TRUE)
                           EXCEPT !.pc = "ct_view", !.cols = has_columns(s),
                                  !.conns = SubSeq(@, 1, n - 1)]]
    /\ UNCHANGED <<engine, lifecycle, calls, fresh, ghosts, outside>>

\* create or replace view <name> as select <columns> from <name>.default
CtView(c) ==
    /\ call[c].pc = "ct_view"
    /\ LET s == call[c].safe
           sql == Sql("create_view", s, 0)
           o == view_outcome(s, call[c].cols)
       IN IF o = "ok"
          THEN /\ views' = views \cup {s}
               /\ live' = live \cup {s}
               /\ intact' = {x \in intact : x[1] # s} \cup
                             (IF \E d \in Callers : /\ call[d].op = "drop_table"
                                                    /\ call[d].name = s
                                                    /\ Running(d)
                              THEN {} ELSE {<<s, call[c].rows>>})
               /\ dropped' = dropped \ {s}
               /\ idle' = idle \cup Range(call[c].conns)
               /\ call' = Return(c, Returned(Logged(call[c], sql, TRUE),
                                             [RetOk EXCEPT !.name =
                                                 create_table_return(call[c].name, s)]))
          ELSE /\ FailStmt(c, o, sql)
               /\ UNCHANGED <<views, live, dropped, intact>>
    /\ UNCHANGED <<files, tables, content, attached, lifecycle, calls, fresh, gone, outside>>

(***************************************************************************)
(* query(sql)                                                              *)
(***************************************************************************)
\* another caller's create_table of the dataset the statement names has executed
\* some of its statements and not yet its last
MidCreation(c, sql) ==
    /\ sql.stmt \in {"select_view", "select_table"}
    /\ \E d \in Callers \ {c} :
         /\ call[d].op = "create_table"
         /\ Running(d)
         /\ call[d].safe = sql.name
         /\ Len(call[d].log) >= 1

CallQuery(c) ==
    /\ CanCall(c)
    /\ \E sql \in QuerySqls :
         Enter(c, [Idle EXCEPT !.op = "query", !.sql = sql], "q_get_conn", "q_run")
    /\ calls' = calls + 1
    /\ fresh' = FALSE
    /\ UNCHANGED <<engine, lifecycle, ghosts, outside>>

QGetConn(c) == GetConn(c, "q_get_conn", "q_run")

\* the row count the dataset s was created with when s is intact, else -1
created_rows(s) ==
    IF \E x \in intact : x[1] = s THEN (CHOOSE x \in intact : x[1] = s)[2] ELSE -1

\* prepare, execute, convert every row, name the columns from the schema
QRun(c) ==
    /\ call[c].pc = "q_run"
    /\ LET sql == call[c].sql
           r == [call[c] EXCEPT !.whole = (created_rows(sql.name) >= 0),
                                !.rows = created_rows(sql.name)]
       IN /\ idle' = idle \cup Range(call[c].conns)
          /\ \E o \in query_outcomes(sql) :
             IF o = "ok"
             THEN \E rs \in result_sets_for(sql, IF sql.name \in SafeNames
                                                   THEN content[sql.name] ELSE 0) :
                    call' = Return(c, Returned([Logged(r, sql, TRUE) EXCEPT
                                                   !.rs = rs, !.partial = MidCreation(c, sql)],
                                               [RetOk EXCEPT !.rows = query_rows(rs)]))
             ELSE call' = Return(c, Returned([Logged(r, sql, FALSE) EXCEPT !.failed = sql],
                                             RetErr(stmt_error(o, sql))))
    /\ UNCHANGED <<engine, lifecycle, calls, fresh, ghosts, outside>>

(***************************************************************************)
(* drop_table(table_name)                                                  *)
(***************************************************************************)
\* a removal that takes a missing file for a removed one
remove_file_result_lenient(name, exists) == RetOk

\* fs::remove_file(&path).await.context(FileSystemSnafu {path})?
remove_file_result(name, exists) ==
    IF exists THEN RetOk ELSE RetErr(FileSystem(db_file(name)))

CallDropTable(c) ==
    /\ CanCall(c)
    /\ \E name \in DropNames :
         /\ Enter(c, [Idle EXCEPT !.op = "drop_table", !.name = name,
                                  !.wasLive = (name \in live)],
                  "d_get_conn", "d_detach")
         /\ intact' = {x \in intact : x[1] # name}
    /\ calls' = calls + 1
    /\ fresh' = FALSE
    /\ UNCHANGED <<engine, lifecycle, live, gone, dropped, outside>>

\* detach_table asks the pool for a connection; `let _ =` drops its error
DGetConn(c) ==
    /\ call[c].pc = "d_get_conn"
    /\ \/ \E k \in pool_get(idle) :
            /\ idle' = idle \ {k}
            /\ call' = [call EXCEPT ![c].conns = Append(@, k), ![c].pc = "d_detach"]
       \/ /\ idle = {}
          /\ call' = [call EXCEPT ![c].pc = "d_remove"]
          /\ UNCHANGED idle
    /\ UNCHANGED <<engine, lifecycle, calls, fresh, ghosts, outside>>

\* detach <table_name>; detach_table returns and its result is ignored
DDetach(c) ==
    /\ call[c].pc = "d_detach"
    /\ LET s == call[c].name
           sql == Sql("detach", s, 0)
           o == detach_outcome(s)
       IN /\ attached' = IF o = "ok" THEN attached \ {s} ELSE attached
          /\ idle' = idle \cup Range(call[c].conns)
          /\ call' = [call EXCEPT ![c] =
                        [Logged(@, sql, o = "ok") EXCEPT !.pc = "d_remove", !.conns = <<>>]]
    /\ UNCHANGED <<files, tables, content, views, lifecycle, calls, fresh, ghosts, outside>>

\* the database file is removed
DRemove(c) ==
    /\ call[c].pc = "d_remove"
    /\ LET s == call[c].name
           exists == db_file(s) \in files
           ret == remove_file_result(s, exists)
       IN /\ files' = files \ {db_file(s)}
          /\ live' = IF ret.status = "ok" THEN live \ {s} ELSE live
          /\ gone' = IF ret.status = "ok" THEN gone \cup {s} ELSE gone
          /\ dropped' = IF ret.status = "ok" /\ call[c].wasLive /\ s \in live
                         THEN dropped \cup {s} ELSE dropped
          /\ call' = Return(c, Returned([Logged(call[c], Sql("remove_file", s, 0), exists)
                                            EXCEPT !.second = (s \in gone)], ret))
    /\ UNCHANGED <<tables, content, attached, views, lifecycle, idle, calls, fresh, intact, outside>>

\* the driver before DuckDBDriver::new: nothing on disk, nothing attached
DriverAtRest ==
    /\ files = {}
    /\ tables = {}
    /\ content = [s \in SafeNames |-> 0]
    /\ attached = {}
    /\ views = {}
    /\ driver = "down"
    /\ bootIdx = 1
    /\ attachQueue = {}
    /\ newErr = NoErr
    /\ newLog = <<>>
    /\ idle = {}
    /\ call = [c \in Callers |-> Idle]
    /\ calls = 0
    /\ starts = 0
    /\ fresh = FALSE
    /\ live = {}
    /\ gone = {}
    /\ dropped = {}
    /\ intact = {}

\* no Config built yet, no builder method called yet
NotBuilt == [ok |-> FALSE, kind |-> "none", message |-> ""]
NoSetter == [fn |-> "none", arg |-> 0, self |-> NotBuilt]

ConfigAtRest ==
    /\ dsnArg = <<>>
    /\ config = NotBuilt
    /\ setter = NoSetter

\* no file name sanitized yet
NoArg == [filename |-> <<>>, suffix |-> <<>>]
NoName == <<"?">>

SanitizerAtRest ==
    /\ sanitizeArg = NoArg
    /\ sqlName = NoName

\* no value converted yet
NotConverted == [kind |-> "none"]

CodecAtRest ==
    /\ native = NullV
    /\ converted = NotConverted

\* no SQL generated yet
NoParams == [k \in {} |-> <<>>]
NoSqlArg == [path |-> <<>>, params |-> NoParams]
NoSqlOut == [ok |-> FALSE, kind |-> "none"]

SqlAtRest ==
    /\ sqlArg = NoSqlArg
    /\ sqlOut = NoSqlOut

\* no upload received yet
NoUpload == [filename |-> <<>>, file |-> None, max_file_size |-> None, overflow_checks |-> FALSE]
NoFlow == [pc |-> "none", log |-> <<>>, validate |-> NoSqlOut, ret |-> NoSqlOut,
           table |-> None]
\* no delete request received yet
NoDeletion == [pc |-> "none", n |-> 0, id |-> 0, name |-> <<>>, log |-> <<>>,
               ret |-> NoSqlOut]

UploadAtRest ==
    /\ upload = NoUpload
    /\ flow = NoFlow
    /\ datasets = {}
    /\ store = {}
    /\ deletion = NoDeletion

\* one component on its own, the others at rest
ConfigAlone == DriverAtRest /\ SanitizerAtRest /\ CodecAtRest /\ SqlAtRest /\ UploadAtRest
SanitizerAlone == DriverAtRest /\ ConfigAtRest /\ CodecAtRest /\ SqlAtRest /\ UploadAtRest
CodecAlone == DriverAtRest /\ ConfigAtRest /\ SanitizerAtRest /\ SqlAtRest /\ UploadAtRest
SqlAlone == DriverAtRest /\ ConfigAtRest /\ SanitizerAtRest /\ CodecAtRest /\ UploadAtRest
UploadAlone == DriverAtRest /\ ConfigAtRest /\ SanitizerAtRest /\ CodecAtRest /\ SqlAtRest

(***************************************************************************)
(* Config (driver/duckdb/config.rs)                                        *)
(***************************************************************************)
\* the paths given to Config::new, as character sequences
TmpKarnaMainDb ==
    <<"/", "t", "m", "p", "/", "k", "a", "r", "n", "a", "/", "m", "a", "i", "n", ".", "d", "b">>
ConfigPaths ==
    { TmpKarnaMainDb,
      <<"/", "m", ".", "d", "b">>,
      <<"/", "d", "/", "/", "m", "/">>,
      <<"/">>,
      <<"/", "/">>,
      <<"/", ".">>,
      <<>>,
      <<"m", ".", "d", "b">>,
      <<"r", "e", "l", "/", "p", "a", "t", "h">>,
      <<".", "/", "m">> }

\* the number of cores num_cpus::get() reports on the machine
AvailableCores == 2

\* the arguments given to the builder methods
CoreArgs == 0..(AvailableCores + 1)
MemoryArgs == {0, 1, 2, 1024, 1025}
MIN_STORAGE == 1048576
StorageArgs == {0, MIN_STORAGE - 1, MIN_STORAGE, 2 * MIN_STORAGE}
PoolArgs == {0, 1, 4}
BootQueryArgs == {<<"q">>}

\* Path::is_absolute on a Unix path: the path has a root
is_absolute(path) == path # <<>> /\ path[1] = "/"

\* Path::components: the non-empty pieces between separators, without the
\* "." pieces, which are kept only at the start of a relative path
path_components(path) ==
    LET pieces == split_nonempty(path, "/")
        kept == {i \in 1..Len(pieces) :
                    pieces[i] # <<".">> \/ (i = 1 /\ ~is_absolute(path))}
        nth(k) == CHOOSE i \in kept : Cardinality({j \in kept : j < i}) = k - 1
    IN [k \in 1..Cardinality(kept) |-> pieces[nth(k)]]

\* Path::parent: the path without its last component, None when the path
\* ends in the root or is empty
path_parent(path) ==
    LET comps == path_components(path)
        front == join_with(SubSeq(comps, 1, Len(comps) - 1), <<"/">>)
    IN IF comps = <<>> THEN None
       ELSE Some(IF is_absolute(path) THEN <<"/">> \o front ELSE front)

ConfigError(message) == [ok |-> FALSE, kind |-> "Config", message |-> message]
ConfigOk(cfg) == [ok |-> TRUE, v |-> cfg]

\* Config::new without the check of the root
config_new_any(dsn) ==
    IF ~path_parent(dsn).some THEN ConfigError("DSN path has no parent directory")
    ELSE ConfigOk([dsn |-> dsn,
                   cpu_cores |-> None,
                   memory_limit_gb |-> None,
                   storage_limit_bytes |-> None,
                   boot_queries |-> <<>>,
                   db_file_path |-> dsn,
                   db_storage_path |-> path_parent(dsn).v,
                   pool_size |-> None])

\* Config::new
config_new(dsn) ==
    IF ~is_absolute(dsn) THEN ConfigError("DSN path must be absolute")
    ELSE IF ~path_parent(dsn).some THEN ConfigError("DSN path has no parent directory")
    ELSE ConfigOk([dsn |-> dsn,
                   cpu_cores |-> None,
                   memory_limit_gb |-> None,
                   storage_limit_bytes |-> None,
                   boot_queries |-> <<>>,
                   db_file_path |-> dsn,
                   db_storage_path |-> path_parent(dsn).v,
                   pool_size |-> None])

\* a memory limit check that lets 0 through
valid_memory_limit_gb_lenient(limit_gb) == limit_gb \in 0..1024

\* the range checks of the builder methods
valid_cpu_cores(cores) == ~(cores = 0 \/ cores > AvailableCores)
valid_memory_limit_gb(limit_gb) == limit_gb \in 1..1024
valid_storage_limit_bytes(limit_bytes) == ~(limit_bytes < MIN_STORAGE)
valid_pool_size(pool_size) == ~(pool_size = 0)

with_cpu_cores(self, cores) ==
    IF ~valid_cpu_cores(cores) THEN ConfigError("Invalid CPU core count")
    ELSE ConfigOk([self EXCEPT !.cpu_cores = Some(cores)])

with_memory_limit_gb(self, limit_gb) ==
    IF ~valid_memory_limit_gb(limit_gb) THEN ConfigError("Invalid memory limit")
    ELSE ConfigOk([self EXCEPT !.memory_limit_gb = Some(limit_gb)])

with_storage_limit_bytes(self, limit_bytes) ==
    IF ~valid_storage_limit_bytes(limit_bytes) THEN ConfigError("Invalid storage limit")
    ELSE ConfigOk([self EXCEPT !.storage_limit_bytes = Some(limit_bytes)])

with_boot_query(self, query) ==
    ConfigOk([self EXCEPT !.boot_queries = Append(@, query)])

with_pool_size(self, pool_size) ==
    IF ~valid_pool_size(pool_size) THEN ConfigError("Pool size must be greater than zero")
    ELSE ConfigOk([self EXCEPT !.pool_size = Some(pool_size)])

\* format!("{key}={value}") of a parameter that is set
dsn_param(key, opt) == IF opt.some THEN <<key \o <<"=">> \o nat_to_string(opt.v)>> ELSE <<>>

\* the keys of the DSN parameters
CpuKey == <<"c", "p", "u">>
MemoryKey ==
    <<"m", "a", "x", "_", "m", "e", "m", "o", "r", "y", "_", "l", "i", "m", "i", "t">>
StorageKey == <<"s", "t", "o", "r", "a", "g", "e", "_", "l", "i", "m", "i", "t">>

\* build_dsn with the pool size as one more parameter
build_dsn_with_pool(self) ==
    LET params == dsn_param(CpuKey, self.cpu_cores)
                    \o dsn_param(MemoryKey, self.memory_limit_gb)
                    \o dsn_param(StorageKey, self.storage_limit_bytes)
                    \o dsn_param(<<"p", "o", "o", "l">>, self.pool_size)
    IN IF params = <<>> THEN self.dsn
       ELSE self.dsn \o <<"?">> \o join_with(params, <<"&">>)

\* Config::build_dsn
build_dsn(self) ==
    LET params == dsn_param(CpuKey, self.cpu_cores)
                    \o dsn_param(MemoryKey, self.memory_limit_gb)
                    \o dsn_param(StorageKey, self.storage_limit_bytes)
    IN IF params = <<>> THEN self.dsn
       ELSE self.dsn \o <<"?">> \o join_with(params, <<"&">>)

ConfigInit ==
    /\ dsnArg \in ConfigPaths
    /\ config = NotBuilt
    /\ setter = NoSetter
    /\ ConfigAlone

\* let config = Config::new(dsn)
ConfigNew ==
    /\ config = NotBuilt
    /\ config' = config_new(dsnArg)
    /\ UNCHANGED <<dsnArg, setter, not_config>>

\* a builder call on the config built so far: config = config.with_...(arg)?
Build(fn, arg, result) ==
    /\ config.ok
    /\ config' = result
    /\ setter' = [fn |-> fn, arg |-> arg, self |-> config]
    /\ UNCHANGED <<dsnArg, not_config>>

WithCpuCores == \E cores \in CoreArgs :
    Build("with_cpu_cores", cores, with_cpu_cores(config.v, cores))

WithMemoryLimitGb == \E limit_gb \in MemoryArgs :
    Build("with_memory_limit_gb", limit_gb, with_memory_limit_gb(config.v, limit_gb))

WithStorageLimitBytes == \E limit_bytes \in StorageArgs :
    Build("with_storage_limit_bytes", limit_bytes,
          with_storage_limit_bytes(config.v, limit_bytes))

WithBootQuery == \E query \in BootQueryArgs :
    /\ config.ok
    /\ Len(config.v.boot_queries) < UserBootQueries
    /\ Build("with_boot_query", query, with_boot_query(config.v, query))

WithPoolSize == \E pool_size \in PoolArgs :
    Build("with_pool_size", pool_size, with_pool_size(config.v, pool_size))

ConfigNext ==
    \/ ConfigNew
    \/ WithCpuCores \/ WithMemoryLimitGb \/ WithStorageLimitBytes
    \/ WithBootQuery \/ WithPoolSize

ConfigSpec == ConfigInit /\ [][ConfigNext]_vars

\* the getters
cpu_cores(self) == self.cpu_cores
memory_limit_gb(self) == self.memory_limit_gb
storage_limit_bytes(self) == self.storage_limit_bytes
pool_size(self) == self.pool_size
boot_queries(self) == self.boot_queries

(***************************************************************************)
(* sanitize_to_sql_name on its own (utils.rs)                              *)
(***************************************************************************)
\* the characters of the short file names: a lower-case and an upper-case
\* letter, a digit, an underscore and a character that is none of these
NameChars == {"a", "Z", "1", "_", "!"}

\* the file names given to the sanitizer: every non-empty name over NameChars
\* up to the bound, the name of the unit test, and names around MAX_LENGTH
FileNames ==
    UNION {[1..k -> NameChars] : k \in 1..MaxNameLen}
      \cup { <<"_", "h", "e", "l", "l", "o", "!", "!", "!", "w", "o", "r", "l", "d", "_">>,
             Rep("a", MAX_LENGTH - 7),
             Rep("a", MAX_LENGTH - 6),
             Rep("a", MAX_LENGTH + 7),
             <<"1">> \o Rep("a", MAX_LENGTH - 8),
             <<"1">> \o Rep("a", MAX_LENGTH - 7),
             <<"a", "!">> \o Rep("b", MAX_LENGTH + 1),
             Rep("a", 30) \o <<"_", "_">> \o Rep("b", 30) \o <<".", "c", "s", "v">> }

\* the values generate_random_string(6) is drawn from
RandomStrings == Suffixes \cup {<<"0", "Z", "z", "9", "x", "Y">>}

SanitizerInit ==
    /\ sanitizeArg \in [filename : FileNames, suffix : RandomStrings]
    /\ sqlName = NoName
    /\ SanitizerAlone

\* let name = sanitize_to_sql_name(filename)
Sanitize ==
    /\ sqlName = NoName
    /\ sqlName' = sanitize_to_sql_name(sanitizeArg.filename, sanitizeArg.suffix)
    /\ UNCHANGED <<sanitizeArg, not_sanitizer>>

SanitizerNext == Sanitize

SanitizerSpec == SanitizerInit /\ [][SanitizerNext]_vars

(***************************************************************************)
(* duckdb_value_to_json_value on its own (utils.rs)                        *)
(***************************************************************************)
\* the integer variants and the bits of each
IntBits ==
    [v \in {"TinyInt", "UTinyInt", "SmallInt", "USmallInt", "Int", "UInt", "BigInt", "UBigInt"} |->
        CASE v \in {"TinyInt", "UTinyInt"} -> 8
          [] v \in {"SmallInt", "USmallInt"} -> 16
          [] v \in {"Int", "UInt"} -> 32
          [] OTHER -> 64]

\* integer values: every 8-bit value, the ends and the middle of the 16-bit
\* ranges, and for the wider variants values up to i32::MAX
IntValues ==
    [v \in DOMAIN IntBits |->
        CASE v = "TinyInt" -> -128..127
          [] v = "UTinyInt" -> 0..255
          [] v = "SmallInt" -> {-32768, -1, 0, 1, 32767}
          [] v = "USmallInt" -> {0, 1, 32767, 32768, 65535}
          [] v \in {"Int", "BigInt"} -> {I32_MIN, -1, 0, 1, I32_MAX}
          [] OTHER -> {0, 1, I32_MAX}]

IntNatives == UNION {{[t |-> v, i |-> i] : i \in IntValues[v]} : v \in DOMAIN IntBits}

TimeUnits == {"Second", "Millisecond", "Microsecond", "Nanosecond"}

\* i64 amounts: around zero, around the end of a day, the largest amount
\* whose product with 1_000_000 is inside i64 and the next one, and the ends
\* of the type
Amounts ==
    { i64_of(0), i64_of(1), i64_neg_of(1), i64_of(1500), i64_of(86399), i64_of(86400),
      i64_of(1700000000),
      udiv_by(I64_MAX, <<1000, 1000>>).limbs,
      uadd(udiv_by(I64_MAX, <<1000, 1000>>).limbs, 1),
      I64_MAX, I64_MIN }

\* i32 day offsets: around the epoch, the ends of chrono's range, the
\* largest offset whose sum with 719163 is inside i32 and the next one, and the
\* ends of the type
DayOffsets ==
    { 0, -1, 19000, -UNIX_EPOCH_DAY,
      days_from_ce(MAX_YEAR + 1) - 1 - UNIX_EPOCH_DAY, days_from_ce(MAX_YEAR + 1) - UNIX_EPOCH_DAY,
      days_from_ce(MIN_YEAR) - UNIX_EPOCH_DAY, days_from_ce(MIN_YEAR) - 1 - UNIX_EPOCH_DAY,
      I32_MAX - UNIX_EPOCH_DAY, I32_MAX - UNIX_EPOCH_DAY + 1, I32_MAX, I32_MIN }

Date32V(days) == [t |-> "Date32", days |-> days]
Time64V(unit, amount) == [t |-> "Time64", unit |-> unit, amount |-> amount]
TimestampV(unit, amount) == [t |-> "Timestamp", unit |-> unit, amount |-> amount]

TemporalNatives ==
    {Date32V(d) : d \in DayOffsets}
      \cup {Time64V(u, a) : u \in TimeUnits, a \in Amounts}
      \cup {TimestampV(u, a) : u \in TimeUnits, a \in Amounts}

\* the other scalar variants
ScalarNatives ==
    { NullV, NaNV, TextV(<<"x">>),
      [t |-> "Boolean", b |-> TRUE],
      [t |-> "Float", f |-> [cls |-> "finite", x |-> 1]],
      [t |-> "Double", f |-> [cls |-> "inf", x |-> 0]],
      [t |-> "Enum", s |-> <<"e">>],
      [t |-> "Blob", bytes |-> <<0, 200, 255>>],
      [t |-> "Interval", months |-> 1, days |-> -2, nanos |-> 3],
      [t |-> "HugeInt", i |-> -12],
      [t |-> "Decimal", i |-> 5] }

\* nested values: lists, arrays, structs, maps and unions around a date that
\* converts, a date outside chrono's range and a date whose sum overflows
NestedNatives ==
    UNION {{ [t |-> "List", list |-> <<IntV(1), d>>],
             [t |-> "Array", list |-> <<Date32V(days_from_ce(MIN_YEAR) - 1 - UNIX_EPOCH_DAY), d>>],
             [t |-> "Struct", items |-> << <<<<"k">>, d>>, <<<<"k">>, NullV>> >>],
             [t |-> "Map", items |-> << <<TextV(<<"k">>), d>> >>],
             [t |-> "Map", items |-> << <<d, IntV(1)>> >>],
             [t |-> "Union", inner |-> d] } :
           d \in {Date32V(0), Date32V(I32_MIN), Date32V(I32_MAX)}}
      \cup {ListKeyMapV, [t |-> "List", list |-> <<>>]}

NativeValues == IntNatives \cup TemporalNatives \cup ScalarNatives \cup NestedNatives

Panicked == [kind |-> "panic"]
Converted(r) == [kind |-> "result", r |-> r]

CodecInit ==
    /\ native \in NativeValues
    /\ converted = NotConverted
    /\ CodecAlone

\* duckdb_value_to_json_value(native), in a build with overflow checks
\* (a debug build) or without them (a release build)
Convert ==
    /\ converted = NotConverted
    /\ \E overflow_checks \in BOOLEAN :
          converted' = IF overflow_checks /\ arith_overflow(native)
                       THEN Panicked
                       ELSE Converted(duckdb_value_to_json_value(native))
    /\ UNCHANGED <<native, not_codec>>

CodecNext == Convert

CodecSpec == CodecInit /\ [][CodecNext]_vars

(***************************************************************************)
(* Ingestion SQL generator (sources/file_system.rs, sources/utils.rs).     *)
(* A parameter map is a function from its keys; the order in which a       *)
(* HashMap is iterated is not fixed, so the rendering takes it as input.   *)
(***************************************************************************)
UpperLetters == <<"A","B","C","D","E","F","G","H","I","J","K","L","M",
                  "N","O","P","Q","R","S","T","U","V","W","X","Y","Z">>
LowerLetters == <<"a","b","c","d","e","f","g","h","i","j","k","l","m",
                  "n","o","p","q","r","s","t","u","v","w","x","y","z">>

\* str::to_lowercase
to_lowercase(s) ==
    [i \in 1..Len(s) |->
        IF s[i] \in Upper
        THEN LowerLetters[CHOOSE k \in 1..Len(UpperLetters) : UpperLetters[k] = s[i]]
        ELSE s[i]]

\* Path::file_name of the components of a path, empty when there is none
file_name(comps) == IF comps = <<>> THEN <<>> ELSE comps[Len(comps)]

\* the position of the last dot of a file name, 0 when it has none
last_dot(name) ==
    LET dots == {i \in 1..Len(name) : name[i] = "."}
    IN IF dots = {} THEN 0 ELSE CHOOSE i \in dots : \A j \in dots : j <= i

\* what follows the dot at position dot, None without a dot or with only a
\* leading one
extension_at(name, dot) ==
    IF dot <= 1 THEN None ELSE Some(SubSeq(name, dot + 1, Len(name)))

extension_of(name) == extension_at(name, last_dot(name))

\* Path::extension: what follows the last dot of the file name, None when the
\* file name has no dot or only a leading one
path_extension(path) == extension_of(file_name(path_components(path)))

\* the extensions of the formats
Csv == <<"c", "s", "v">>
Tsv == <<"t", "s", "v">>
Txt == <<"t", "x", "t">>
Parquet == <<"p", "a", "r", "q", "u", "e", "t">>
Json == <<"j", "s", "o", "n">>

\* the parameter keys of sources::file_system::constants and the values
DELIMITER == <<"d", "e", "l", "i", "m", "i", "t", "e", "r">>
HAS_HEADER == <<"h", "e", "a", "d", "e", "r">>
SAMPLE_SIZE == <<"s", "a", "m", "p", "l", "e", "_", "s", "i", "z", "e">>
ALL_VARCHAR == <<"a", "l", "l", "_", "v", "a", "r", "c", "h", "a", "r">>
AUTO_DETECT == <<"a", "u", "t", "o", "_", "d", "e", "t", "e", "c", "t">>
UNION_BY_NAME == <<"u", "n", "i", "o", "n", "_", "b", "y", "_", "n", "a", "m", "e">>
DEFAULT_SAMPLE_SIZE == <<"1", "0", "0", "0">>
True == <<"t", "r", "u", "e">>

InvalidFormat(format) == [ok |-> FALSE, kind |-> "InvalidFormat", format |-> format]
FileSystemErr(path) == [ok |-> FALSE, kind |-> "FileSystem", path |-> path]
SqlOk(sql) == [ok |-> TRUE, kind |-> "sql", sql |-> sql]

\* FileFormat::from_extension: the format, None standing for InvalidFormat
from_extension(extension) ==
    IF to_lowercase(extension) \in {Csv, Tsv, Txt, Parquet, Json}
    THEN Some(to_lowercase(extension))
    ELSE None

\* HashMap::insert of every pair of more into params
insert_all(params, more) ==
    [k \in DOMAIN params \cup DOMAIN more |-> IF k \in DOMAIN more THEN more[k] ELSE params[k]]

\* a HashMap of one pair
Pair(k, v) == [x \in {k} |-> v]

\* FileFormat::default_params
default_params(format) ==
    LET common == IF format \in {Csv, Tsv, Txt, Json}
                  THEN insert_all(Pair(AUTO_DETECT, True), Pair(SAMPLE_SIZE, DEFAULT_SAMPLE_SIZE))
                  ELSE NoParams
        specific == IF format \in {Csv, Tsv}
                    THEN insert_all(Pair(HAS_HEADER, True),
                                    IF format = Tsv THEN Pair(DELIMITER, <<"\t">>) ELSE NoParams)
                    ELSE IF format = Parquet THEN Pair(UNION_BY_NAME, True)
                    ELSE NoParams
    IN insert_all(common, specific)

\* the orders in which a HashMap with these keys can be iterated
Orders(keys) ==
    {order \in [1..Cardinality(keys) -> keys] :
        \A i, j \in 1..Cardinality(keys) : order[i] = order[j] => i = j}

\* params.iter().map(|(k, v)| format!("{} = '{}'", k, v)).collect().join(", ")
query_params(params, order) ==
    join_with([i \in 1..Len(order) |-> order[i] \o <<" ", "=", " ", "'">> \o params[order[i]] \o <<"'">>],
              <<",", " ">>)

\* generate_read_csv_statement
generate_read_csv_statement(path, params, order) ==
    IF DOMAIN params = {} THEN <<"r", "e", "a", "d", "_", "c", "s", "v", "(", "'">> \o path \o <<"'", ")">>
    ELSE <<"r", "e", "a", "d", "_", "c", "s", "v", "(", "'">> \o path \o <<"'", ",", " ">> \o query_params(params, order) \o <<")">>

\* generate_read_parquet_statement
generate_read_parquet_statement(path, params, order) ==
    <<"r", "e", "a", "d", "_", "p", "a", "r", "q", "u", "e", "t", "(", "'">> \o path \o <<"'", ",", " ">> \o query_params(params, order) \o <<")">>

\* generate_read_json_statement
generate_read_json_statement(path, params, order) ==
    <<"r", "e", "a", "d", "_", "j", "s", "o", "n", "(", "'">> \o path \o <<"'", ",", " ">> \o query_params(params, order) \o <<")">>

\* source_reader that matches the format whatever its case
source_reader_any_case(path, format, params, order) ==
    IF to_lowercase(format) \in {Csv, Tsv, Txt}
    THEN SqlOk(generate_read_csv_statement(path, params, order))
    ELSE IF to_lowercase(format) = Parquet
    THEN SqlOk(generate_read_parquet_statement(path, params, order))
    ELSE IF to_lowercase(format) = Json
    THEN SqlOk(generate_read_json_statement(path, params, order))
    ELSE InvalidFormat(format)

\* source_reader
source_reader(path, format, params, order) ==
    IF format \in {Csv, Tsv, Txt} THEN SqlOk(generate_read_csv_statement(path, params, order))
    ELSE IF format = Parquet THEN SqlOk(generate_read_parquet_statement(path, params, order))
    ELSE IF format = Json THEN SqlOk(generate_read_json_statement(path, params, order))
    ELSE InvalidFormat(format)

\* the caller's parameters taken instead of the defaults when there are any
final_params_replaced(format, ingestion_params) ==
    IF DOMAIN ingestion_params = {} THEN default_params(format) ELSE ingestion_params

\* the merge of generate_sql: the defaults, then every caller pair inserted
final_params(format, ingestion_params) == insert_all(default_params(format), ingestion_params)

\* Ok(format!("select * from {}", sql)) for the statement source_reader(..)? gave
select_from(sql) ==
    IF ~sql.ok THEN sql
    ELSE SqlOk(<<"s", "e", "l", "e", "c", "t", " ", "*", " ", "f", "r", "o", "m", " ">> \o sql.sql)

\* generate_sql once FileFormat::from_extension(extension) has answered format
sql_for_format(file_path, extension, format, ingestion_params, order) ==
    IF ~format.some THEN InvalidFormat(extension)
    ELSE select_from(source_reader(file_path, extension,
                                   final_params(format.v, ingestion_params), order))

\* generate_sql once path.extension() has answered extension
sql_for_extension(file_path, extension, ingestion_params, order) ==
    IF ~extension.some THEN FileSystemErr(file_path)
    ELSE sql_for_format(file_path, extension.v, from_extension(extension.v),
                        ingestion_params, order)

\* FileSystem::generate_sql, order being the iteration order of final_params
generate_sql(file_path, ingestion_params, order) ==
    sql_for_extension(file_path, path_extension(file_path), ingestion_params, order)

orders_for_format(format, ingestion_params) ==
    IF format.some THEN Orders(DOMAIN final_params(format.v, ingestion_params))
    ELSE {<<>>}

orders_for_extension(extension, ingestion_params) ==
    IF extension.some THEN orders_for_format(from_extension(extension.v), ingestion_params)
    ELSE {<<>>}

\* the orders generate_sql can iterate its merged parameters in: those of
\* final_params when the format is known, the empty one otherwise
orders_of(file_path, ingestion_params) ==
    orders_for_extension(path_extension(file_path), ingestion_params)

\* the file paths given to generate_sql: the five formats, upper-case and
\* unknown extensions, an empty extension, no extension, a leading dot only
Dir == <<"/", "t", "/">>
SqlPaths ==
    {Dir \o <<"d", ".">> \o x : x \in {Csv, Tsv, Txt, Parquet, Json, <<"C", "S", "V">>, <<"J", "s", "o", "n">>, <<"x", "l", "s", "x">>, <<>>}}
      \cup {Dir \o <<"d">>, Dir \o <<".">> \o Csv, Dir \o <<"a", ".", "b", ".">> \o Csv}

\* the caller's parameters: none, a default key overridden, a new key,
\* both, and the sample size overridden
SqlParams ==
    { NoParams,
      Pair(HAS_HEADER, <<"f", "a", "l", "s", "e">>),
      Pair(ALL_VARCHAR, True),
      insert_all(Pair(DELIMITER, <<";">>), Pair(ALL_VARCHAR, True)),
      Pair(SAMPLE_SIZE, <<"-", "1">>) }

SqlInit ==
    /\ sqlArg \in [path : SqlPaths, params : SqlParams]
    /\ sqlOut = NoSqlOut
    /\ SqlAlone

\* let sql = source.generate_sql(path, params)
GenerateSql ==
    /\ sqlOut = NoSqlOut
    /\ \E order \in orders_of(sqlArg.path, sqlArg.params) :
          sqlOut' = generate_sql(sqlArg.path, sqlArg.params, order)
    /\ UNCHANGED <<sqlArg, not_sql>>

SqlNext == GenerateSql

SqlSpec == SqlInit /\ [][SqlNext]_vars

(***************************************************************************)
(* File validation and the upload flow (FileSystem::validate,              *)
(* api/datasets/create.rs process_file_upload).  File lengths (u64) and    *)
(* the maximum size (usize, 64 bits) are four 16-bit limbs.                *)
(***************************************************************************)
\* usize `*` by m <= 1024: the product wrapped to 64 bits, and whether the
\* true product is outside usize
mul_usize(x, m) ==
    LET p == umul(x, m, 0)
    IN [overflow |-> p.carry # 0, v |-> p.limbs]

\* a > b for unsigned limbs of one length
RECURSIVE limbs_gt(_, _)
limbs_gt(a, b) ==
    IF a = <<>> THEN FALSE
    ELSE IF a[1] # b[1] THEN a[1] > b[1]
    ELSE limbs_gt(Tail(a), Tail(b))

\* max_size * 1024 * 1024
max_bytes(max_size) ==
    LET kib == mul_usize(max_size, 1024)
        bytes == mul_usize(kib.v, 1024)
    IN [overflow |-> kib.overflow \/ bytes.overflow, v |-> bytes.v]

ValidateOk == [ok |-> TRUE, kind |-> "valid"]

\* FileSystem::validate: file is None when std::fs::metadata fails, the
\* length of the file otherwise; the product max_size * 1024 * 1024 wrapped
validate(max_file_size, file_path, file) ==
    IF ~file.some THEN FileSystemErr(file_path)
    ELSE IF file.v = <<0, 0, 0, 0>> THEN FileSystemErr(file_path)
    ELSE IF max_file_size.some /\ limbs_gt(file.v, max_bytes(max_file_size.v).v)
    THEN FileSystemErr(file_path)
    ELSE ValidateOk

\* whether validate evaluates a product outside usize: the length is looked
\* at first, the product only for a file that exists and is not empty
validate_overflows(max_file_size, file) ==
    /\ file.some /\ file.v # <<0, 0, 0, 0>>
    /\ max_file_size.some
    /\ max_bytes(max_file_size.v).overflow

\* Error::Internal of the server
Internal(message) == [ok |-> FALSE, kind |-> "Internal", message |-> message]

\* std::env::temp_dir().join(&filename)
TempDir == <<"/", "t", "m", "p", "/">>
temp_path(filename) == TempDir \o filename

\* filename.split(".").next().unwrap(): what precedes the first dot
before_first_dot(filename) ==
    LET dots == {i \in 1..Len(filename) : filename[i] = "."}
    IN IF dots = {} THEN filename
       ELSE SubSeq(filename, 1, (CHOOSE i \in dots : \A j \in dots : i <= j) - 1)

MiB == <<0, 0, 16, 0>>

\* the uploads: the file's name, whether the saved file can be read and its
\* length (0, 1, 1 MiB, 1 MiB + 1), the maximum of the FileSystem source in MB
\* (none as in main.rs, 1, 2^44), and the build's overflow checks
FileNamesUploaded == {<<"d", ".", "c", "s", "v">>, <<"d", ".", "C", "S", "V">>, <<"d", ".", "x", "l", "s", "x">>, <<"d">>}
FileLengths == {<<0, 0, 0, 0>>, <<0, 0, 0, 1>>, MiB, <<0, 0, 16, 1>>}
MaxFileSizes == {<<0, 0, 0, 1>>, <<0, 4096, 0, 0>>}
Uploads ==
    [filename : FileNamesUploaded,
     file : {None} \cup {Some(n) : n \in FileLengths},
     max_file_size : {None} \cup {Some(m) : m \in MaxFileSizes},
     overflow_checks : BOOLEAN]

UploadInit ==
    /\ upload \in Uploads
    /\ flow = NoFlow
    /\ datasets = {}
    /\ store = {}
    /\ deletion = NoDeletion
    /\ UploadAlone

\* what the upload actions leave alone besides the flow
upload_rest == <<upload, datasets, store, deletion, not_upload>>

\* an error of the server (error.rs) other than Internal; the errors of the
\* engine become Internal through From<engine::error::Error>
ServerError(kind) == [ok |-> FALSE, kind |-> kind]

\* upload_file_system is entered: get_multipart_field, get_filename and
\* save_uploaded_file, each returning its error with `?`
UploadSave ==
    /\ flow.pc = "none"
    /\ \E e \in {"ok", "MultiPart", "BadReq", "File"} :
          flow' = IF e = "ok" THEN [flow EXCEPT !.pc = "get_file_format"]
                  ELSE [flow EXCEPT !.pc = "returned", !.ret = ServerError(e)]
    /\ UNCHANGED upload_rest

\* let format = get_file_format(&filepath)?
UploadFormat ==
    /\ flow.pc = "get_file_format"
    /\ flow' = IF path_extension(temp_path(upload.filename)).some
               THEN [flow EXCEPT !.pc = "validate"]
               ELSE [flow EXCEPT !.pc = "returned",
                                 !.ret = Internal("Failed to get file extension")]
    /\ UNCHANGED upload_rest

\* process_file_upload is entered and validate_file(&source, &filepath)? runs
ValidateFile ==
    /\ flow.pc = "validate"
    /\ LET r == validate(upload.max_file_size, temp_path(upload.filename), upload.file)
           log == <<"validate">>
       IN flow' =
            IF upload.overflow_checks /\ validate_overflows(upload.max_file_size, upload.file)
            THEN [flow EXCEPT !.pc = "panicked", !.log = log]
            ELSE IF ~r.ok
            THEN [flow EXCEPT !.pc = "returned", !.log = log, !.validate = r,
                              !.ret = Internal("Failed to validate file")]
            ELSE [flow EXCEPT !.pc = "generate_sql", !.log = log, !.validate = r]
    /\ UNCHANGED upload_rest

\* the flow after generate_sql(&source, &filepath) answered r: the `?` returns
\* its error as Error::Internal
generated(r) ==
    IF ~r.ok
    THEN [flow EXCEPT !.pc = "returned", !.log = Append(flow.log, "generate_sql"),
                      !.ret = Internal("Failed to generate SQL")]
    ELSE [flow EXCEPT !.pc = "create_table", !.log = Append(flow.log, "generate_sql"),
                      !.ret = r]

\* let create_sql = generate_sql(&source, &filepath)?
UploadGenerateSql ==
    /\ flow.pc = "generate_sql"
    /\ \E order \in orders_of(temp_path(upload.filename), NoParams) :
          flow' = generated(generate_sql(temp_path(upload.filename), NoParams, order))
    /\ UNCHANGED upload_rest

\* the flow after the driver's create_table answered: the safe name, or
\* Error::Internal with `?`
table_created(ok, table_name) ==
    IF ~ok
    THEN [flow EXCEPT !.pc = "returned", !.log = Append(flow.log, "create_table"),
                      !.ret = Internal("Failed to create table")]
    ELSE [flow EXCEPT !.pc = "get_row_count", !.log = Append(flow.log, "create_table"),
                      !.ret = [ok |-> TRUE, kind |-> "table", table_name |-> table_name],
                      !.table = Some(table_name)]

\* let table_name = create_table(&olap, filename.split(".").next().unwrap(),
\* &create_sql).await?, the driver answering with a safe name or an error; a
\* create_table that fails after its attach leaves <safe_name>.db behind
UploadCreateTable ==
    /\ flow.pc = "create_table"
    /\ \E ok \in BOOLEAN, file_made \in BOOLEAN, suffix \in Suffixes :
          /\ ok => file_made
          /\ flow' = table_created(ok, sanitize_to_sql_name(
                                          before_first_dot(upload.filename), suffix))
          /\ datasets' = IF file_made
                         THEN datasets \cup {sanitize_to_sql_name(
                                                before_first_dot(upload.filename), suffix)}
                         ELSE datasets
    /\ UNCHANGED <<upload, store, deletion, not_upload>>

\* the flow after get_row_count answered: Ok((table_name, row_count)), or
\* Error::Internal when the query failed or gave no count
counted(ok, row_count) ==
    IF ~ok \/ row_count < 0
    THEN [flow EXCEPT !.pc = "returned", !.log = Append(flow.log, "get_row_count"),
                      !.ret = Internal("Failed to query table")]
    ELSE [flow EXCEPT !.pc = "get_file_size", !.log = Append(flow.log, "get_row_count"),
                      !.ret = [ok |-> TRUE, kind |-> "uploaded",
                               table_name |-> flow.ret.table_name,
                               row_count |-> row_count]]

\* let row_count = get_row_count(&olap, &table_name).await?, the driver
\* answering the count statement with rows or an error
UploadRowCount ==
    /\ flow.pc = "get_row_count"
    /\ \E ok \in BOOLEAN, n \in 0..2 :
          flow' = counted(ok, get_row_count(query_rows(count_result(n))))
    /\ UNCHANGED upload_rest

\* let file_size = get_file_size(&filepath)?: the metadata of the saved file
UploadFileSize ==
    /\ flow.pc = "get_file_size"
    /\ flow' = IF upload.file.some THEN [flow EXCEPT !.pc = "create_dataset"]
               ELSE [flow EXCEPT !.pc = "returned", !.ret = ServerError("File")]
    /\ UNCHANGED upload_rest

\* the id the store gives a new record
DatasetIds == {1, 2}
new_id(records) == CHOOSE i \in DatasetIds : \A r \in records : r.id # i

\* create_dataset(store, CreateDataset { name: table_name, .. }).await?: the
\* store inserts the record or fails
UploadCreateDataset ==
    /\ flow.pc = "create_dataset"
    /\ \E ok \in BOOLEAN :
          IF ok
          THEN /\ store' = store \cup {[id |-> new_id(store),
                                           name |-> flow.ret.table_name]}
               /\ flow' = [flow EXCEPT !.pc = "cleanup_temp_file",
                              !.ret = [ok |-> TRUE, kind |-> "dataset", id |-> new_id(store),
                                       table_name |-> flow.ret.table_name]]
          ELSE /\ store' = store
               /\ flow' = [flow EXCEPT !.pc = "returned",
                                       !.ret = Internal("Failed to create dataset")]
    /\ UNCHANGED <<upload, datasets, deletion, not_upload>>

\* cleanup_temp_file(filepath).await?, then the response 201 with the dataset
UploadCleanup ==
    /\ flow.pc = "cleanup_temp_file"
    /\ \E ok \in BOOLEAN :
          flow' = IF ok THEN [flow EXCEPT !.pc = "returned"]
                  ELSE [flow EXCEPT !.pc = "returned", !.ret = ServerError("File")]
    /\ UNCHANGED upload_rest

(***************************************************************************)
(* The delete handler (api/datasets/delete.rs)                             *)
(***************************************************************************)
MaxDeletes == 2

\* a delete handler that goes on to store.delete whatever drop_table returned
after_drop_table_ignored(ret) == "store_delete"

\* olap.drop_table(&dataset.name).await?: the handler goes on when the driver
\* returned Ok and returns the error otherwise
after_drop_table(ret) == IF ret.status = "ok" THEN "store_delete" ELSE "returned"

\* store.details(id.clone()).await?.ok_or_else(NotFound)?
DeleteDetails ==
    /\ deletion.pc \in {"none", "returned"}
    /\ deletion.n < MaxDeletes
    /\ \E id \in DatasetIds, ok \in BOOLEAN :
          LET found == {r \in store : r.id = id}
              entered == [NoDeletion EXCEPT !.n = deletion.n + 1, !.id = id]
          IN deletion' =
               IF ~ok
               THEN [entered EXCEPT !.pc = "returned", !.ret = Internal("internal error"),
                                    !.log = <<[call |-> "details", ok |-> FALSE]>>]
               ELSE IF found = {}
               THEN [entered EXCEPT !.pc = "returned", !.ret = ServerError("NotFound"),
                                    !.log = <<[call |-> "details", ok |-> TRUE]>>]
               ELSE [entered EXCEPT !.pc = "drop_table",
                                    !.name = (CHOOSE r \in found : TRUE).name,
                                    !.log = <<[call |-> "details", ok |-> TRUE]>>]
    /\ UNCHANGED <<upload, flow, datasets, store, not_upload>>

\* olap.drop_table(&dataset.name).await?: the driver removes <name>.db and
\* returns Ok exactly when the removal succeeded
DeleteDropTable ==
    /\ deletion.pc = "drop_table"
    /\ LET ret == remove_file_result(deletion.name, deletion.name \in datasets)
       IN /\ datasets' = datasets \ {deletion.name}
          /\ deletion' = [deletion EXCEPT
                             !.pc = after_drop_table(ret),
                             !.log = Append(@, [call |-> "drop_table",
                                                ok |-> ret.status = "ok"]),
                             !.ret = IF ret.status = "ok" THEN @
                                     ELSE Internal("failed to read file")]
    /\ UNCHANGED <<upload, flow, store, not_upload>>

\* Ok(store.delete(id).await?)
DeleteStoreDelete ==
    /\ deletion.pc = "store_delete"
    /\ \E ok \in BOOLEAN :
          /\ store' = IF ok THEN {r \in store : r.id # deletion.id} ELSE store
          /\ deletion' = [deletion EXCEPT
                             !.pc = "returned",
                             !.log = Append(@, [call |-> "store_delete", ok |-> ok]),
                             !.ret = IF ok THEN [ok |-> TRUE, kind |-> "deleted"]
                                     ELSE Internal("internal error")]
    /\ UNCHANGED <<upload, flow, datasets, not_upload>>

UploadNext ==
    \/ UploadSave \/ UploadFormat \/ ValidateFile \/ UploadGenerateSql
    \/ UploadCreateTable \/ UploadRowCount \/ UploadFileSize \/ UploadCreateDataset
    \/ UploadCleanup
    \/ DeleteDetails \/ DeleteDropTable \/ DeleteStoreDelete

UploadSpec == UploadInit /\ [][UploadNext]_vars

(***************************************************************************)
(* Specification                                                           *)
(***************************************************************************)
Init ==
    DriverAtRest /\ ConfigAtRest /\ SanitizerAtRest /\ CodecAtRest /\ SqlAtRest /\ UploadAtRest

Next ==
    \/ DriverNew \/ BootQuery \/ InitSchema \/ ScanDir \/ AttachNext \/ DriverUp
    \/ Shutdown
    \/ \E c \in Callers :
         \/ CallCreateTable(c) \/ CtGetConn(c) \/ CtAttach(c) \/ CtCreate(c)
         \/ CtColsGetConn(c) \/ CtColumns(c) \/ CtView(c)
         \/ CallQuery(c) \/ QGetConn(c) \/ QRun(c)
         \/ CallDropTable(c) \/ DGetConn(c) \/ DDetach(c) \/ DRemove(c)

Spec == Init /\ [][Next]_vars

(***************************************************************************)
(* Properties                                                              *)
(***************************************************************************)
\* the statements of a create_table for the safe name s, in the order of the code
CreateTableSteps(s) ==
    << Sql("attach", s, 0), Sql("create_table", s, 0),
       Sql("columns", s, 0), Sql("create_view", s, 0) >>

C2_DropTable ==
    \A c \in Callers :
       (call[c].op = "drop_table" /\ call[c].pc = "returned") =>
          LET r == call[c]
              last == r.log[Len(r.log)]
          IN /\ last.sql = Sql("remove_file", r.name, 0)
             /\ (r.ret.status = "err") <=> ~last.ok
             /\ r.ret.status = "err" => r.ret.err = FileSystem(db_file(r.name))
             /\ r.second => r.ret.status = "err"

\* a second drop_table of a dropped name has returned: its detach failed, the
\* removal was tried and failed
C2_Witness ==
    \E c \in Callers :
       /\ call[c].op = "drop_table"
       /\ call[c].pc = "returned"
       /\ call[c].second
       /\ Len(call[c].log) = 2
       /\ ~call[c].log[1].ok
       /\ call[c].ret.err.kind = "FileSystem"

\* C3: once a created dataset s was dropped with success (and no create_table has
\* produced or is producing s again), its file is not in the storage directory and
\* a query over the view s fails.
C3_DroppedDatasetIsGone ==
    \A s \in dropped :
       (\A c \in Callers : ~(call[c].op = "create_table" /\ Running(c) /\ call[c].safe = s)) =>
          /\ db_file(s) \notin files
          /\ "ok" \notin query_outcomes(Sql("select_view", s, 0))

\* the aliases the directory listing stands for: every <x>.db other than main.db
ListedAliases ==
    {SubSeq(f, 1, Len(f) - Len(DotDb)) :
        f \in {g \in files : ends_with(g, DotDb) /\ g # db_file(MainName)}}

\* C4: when the driver has been constructed, the attached aliases are exactly the
\* <x>.db files of the directory other than main.db, so that every dataset created
\* and not dropped earlier is attached again.
C4_AttachedRebuiltFromListing ==
    (driver = "up" /\ fresh) => (attached = ListedAliases /\ live \subseteq attached)

\* C5: once the primary database exists, main.db stays in the storage directory
\* and is not attached as a dataset alias.
C5_PrimaryIsNoDataset ==
    starts >= 1 => (db_file(MainName) \in files /\ MainName \notin attached)

Held(c) == Range(call[c].conns)
WaitsForConn(c) ==
    call[c].pc \in {"ct_get_conn", "ct_cols_get_conn", "q_get_conn", "d_get_conn"}

C7_NoPartialDatasetObserved ==
    \A c \in Callers : ~call[c].partial

\* the native values of a result set
ValuesOf(rs) ==
    {rs.rows[r][k] : r \in 1..Len(rs.rows), k \in 1..Len(rs.cols)}

\* C8: a query whose result holds a value the codec cannot convert does not return
\* a result.
C8_ConversionErrorFailsQuery ==
    \A c \in Callers :
       (call[c].op = "query" /\ call[c].ret.status = "ok") =>
          \A v \in ValuesOf(call[c].rs) : duckdb_value_to_json_value(v).ok

\* C9: an error returned for a statement that could not be prepared or executed
\* carries the SQL text of that statement.
C9_StatementErrorsCarrySql ==
    /\ \A c \in Callers :
         (call[c].ret.status = "err"
            /\ call[c].ret.err.kind \in {"DuckDBPrepareStatement", "DuckDBExecution"}) =>
               call[c].ret.err.sql = call[c].failed
    /\ newErr.kind \in {"DuckDBPrepareStatement", "DuckDBExecution"} => newErr.sql # NoSql

\* C10: a successful query returns one mapping per result row, in order, each with
\* one entry per result column that holds the column's converted value.
C10_RowsAsColumnMappings ==
    \A c \in Callers :
       (call[c].op = "query" /\ call[c].ret.status = "ok") =>
          LET rs == call[c].rs
              out == call[c].ret.rows
          IN /\ Len(out) = Len(rs.rows)
             /\ \A r \in 1..Len(rs.rows) :
                  /\ Cardinality(DOMAIN out[r]) = Len(rs.cols)
                  /\ \A k \in 1..Len(rs.cols) :
                       LET v == duckdb_value_to_json_value(rs.rows[r][k])
                       IN /\ v.ok
                          /\ rs.cols[k] \in DOMAIN out[r]
                          /\ out[r][rs.cols[k]] = v.json

\* C11: a query over the view s, or its row count, executed after a create_table
\* whose create_sql produced n rows returned s and before any drop_table(s) was
\* called, returns exactly those n rows, respectively the count n, which the upload
\* handler's probe reads as the row count n.
C11_ViewReturnsCreatedRows ==
    \A c \in Callers :
       (call[c].op = "query" /\ call[c].pc = "returned" /\ call[c].whole
          /\ call[c].sql.stmt \in {"select_view", "select_count"}
          /\ Len(call[c].log) = 1) =>
             /\ call[c].ret.status = "ok"
             /\ call[c].sql.stmt = "select_view" =>
                   call[c].ret.rows = query_rows(select_result(call[c].rows))
             /\ call[c].sql.stmt = "select_count" =>
                   /\ Len(call[c].ret.rows) = 1
                   /\ get_row_count(call[c].ret.rows) = call[c].rows

\* the state right after Config::new returned, before any builder call
ConfigNewReturned == config # NotBuilt /\ setter = NoSetter

\* C12 (as amended): Config::new(path) succeeds for every absolute path that
\* has a parent directory, and then returns a config holding the path, with
\* cpu_cores, memory_limit_gb, storage_limit_bytes and pool_size unset and no
\* boot queries; it fails with a configuration error for every relative path
\* and for every path without a parent directory (the root among them).
C12_ConfigNew ==
    ConfigNewReturned =>
       /\ (dsnArg # <<>> /\ dsnArg[1] = "/" /\ path_parent(dsnArg).some) =>
             /\ config.ok
             /\ config.v.dsn = dsnArg
             /\ config.v.db_file_path = dsnArg
             /\ config.v.db_storage_path = path_parent(dsnArg).v
             /\ config.v.cpu_cores = None
             /\ config.v.memory_limit_gb = None
             /\ config.v.storage_limit_bytes = None
             /\ config.v.pool_size = None
             /\ config.v.boot_queries = <<>>
       /\ (dsnArg = <<>> \/ dsnArg[1] # "/") =>
             ~config.ok /\ config.kind = "Config"
       /\ ~path_parent(dsnArg).some =>
             ~config.ok /\ config.kind = "Config"

\* Config::new("/tmp/karna/main.db") returned a config stored under /tmp/karna
C12_Witness ==
    /\ ConfigNewReturned
    /\ dsnArg = TmpKarnaMainDb
    /\ config.ok
    /\ config.v.db_storage_path = <<"/", "t", "m", "p", "/", "k", "a", "r", "n", "a">>

\* C12 as stated: Config::new succeeds for every absolute path
C12_EveryAbsolutePath ==
    (ConfigNewReturned /\ dsnArg # <<>> /\ dsnArg[1] = "/") => config.ok

\* the last builder call was fn: its argument, and whether it succeeded
Called(fn) == setter.fn = fn
Failed == ~config.ok /\ config.kind = "Config"

\* C13: every Config reachable from Config::new by builder calls has
\* cpu_cores, if set, in [1, available_cores], memory_limit_gb, if set, in
\* [1, 1024], storage_limit_bytes, if set, at least 1048576, and pool_size, if
\* set, greater than 0; a setter called with a value outside its range fails
\* with a configuration error, and called with a value inside its range
\* succeeds and the matching getter returns the value unchanged.
C13_ConfigRanges ==
    /\ config.ok =>
          /\ cpu_cores(config.v).some => cpu_cores(config.v).v \in 1..AvailableCores
          /\ memory_limit_gb(config.v).some => memory_limit_gb(config.v).v \in 1..1024
          /\ storage_limit_bytes(config.v).some => storage_limit_bytes(config.v).v >= 1048576
          /\ pool_size(config.v).some => pool_size(config.v).v > 0
    /\ Called("with_cpu_cores") =>
          IF setter.arg \in 1..AvailableCores
          THEN config.ok /\ cpu_cores(config.v) = Some(setter.arg)
          ELSE Failed
    /\ Called("with_memory_limit_gb") =>
          IF setter.arg \in 1..1024
          THEN config.ok /\ memory_limit_gb(config.v) = Some(setter.arg)
          ELSE Failed
    /\ Called("with_storage_limit_bytes") =>
          IF setter.arg >= 1048576
          THEN config.ok /\ storage_limit_bytes(config.v) = Some(setter.arg)
          ELSE Failed
    /\ Called("with_pool_size") =>
          IF setter.arg > 0
          THEN config.ok /\ pool_size(config.v) = Some(setter.arg)
          ELSE Failed

\* with_storage_limit_bytes(1048576) succeeded on a config whose cores and
\* memory limit were set before
C13_Witness ==
    /\ Called("with_storage_limit_bytes")
    /\ setter.arg = 1048576
    /\ config.ok
    /\ storage_limit_bytes(config.v) = Some(1048576)
    /\ cpu_cores(config.v) = Some(AvailableCores)
    /\ memory_limit_gb(config.v) = Some(1024)

\* key=value of an optional parameter, the empty string when it is unset
KeyValue(key, opt) == IF opt.some THEN key \o <<"=">> \o nat_to_string(opt.v) ELSE <<>>

\* a and b with an ampersand between them when neither is empty
Amp(a, b) == IF a = <<>> THEN b ELSE IF b = <<>> THEN a ELSE a \o <<"&">> \o b

\* C14: build_dsn() is a function of the config: the primary path alone when
\* none of cpu_cores, memory_limit_gb, storage_limit_bytes is set, otherwise
\* the path, a question mark and one key=value per set parameter joined by
\* ampersands, with the keys cpu, max_memory_limit, storage_limit in that
\* order whatever the order of the setter calls; pool size and boot queries
\* never appear in it; /tmp/karna/main.db with memory limit 2 and pool size 1
\* gives /tmp/karna/main.db?max_memory_limit=2.
C14_BuildDsn ==
    config.ok =>
       LET cfg == config.v
           query == Amp(KeyValue(<<"c", "p", "u">>, cfg.cpu_cores),
                        Amp(KeyValue(MemoryKey, cfg.memory_limit_gb),
                            KeyValue(StorageKey, cfg.storage_limit_bytes)))
       IN /\ (~cfg.cpu_cores.some /\ ~cfg.memory_limit_gb.some
                 /\ ~cfg.storage_limit_bytes.some) => build_dsn(cfg) = dsnArg
          /\ (cfg.cpu_cores.some \/ cfg.memory_limit_gb.some
                 \/ cfg.storage_limit_bytes.some) =>
                build_dsn(cfg) = dsnArg \o <<"?">> \o query
          /\ build_dsn(cfg) = build_dsn([cfg EXCEPT !.pool_size = None, !.boot_queries = <<>>])
          /\ (dsnArg = TmpKarnaMainDb /\ cfg.memory_limit_gb = Some(2)
                 /\ cfg.pool_size = Some(1) /\ ~cfg.cpu_cores.some
                 /\ ~cfg.storage_limit_bytes.some) =>
                build_dsn(cfg) = TmpKarnaMainDb \o <<"?", "m", "a", "x", "_", "m", "e", "m", "o", "r", "y", "_", "l", "i", "m", "i", "t", "=", "2">>

\* the cores were set last, after the memory and storage limits, on a config
\* with a pool size and a boot query: the DSN has all three parameters
C14_Witness ==
    /\ config.ok
    /\ Called("with_cpu_cores")
    /\ ~setter.self.v.cpu_cores.some
    /\ setter.self.v.memory_limit_gb.some
    /\ setter.self.v.storage_limit_bytes.some
    /\ config.v.pool_size = Some(1)
    /\ config.v.boot_queries # <<>>
    /\ Len(build_dsn(config.v)) > Len(dsnArg) + Len(MemoryKey) + Len(StorageKey)

IsLetter(c) == c \in Lower \cup Upper
IsWordChar(c) == IsLetter(c) \/ c \in Digit

\* the returned name without the underscore and the suffix at its end, the
\* whole name when truncation removed them
BeforeSuffix(name, suffix) ==
    LET tail == <<"_">> \o suffix
    IN IF Len(name) >= Len(tail) /\ SubSeq(name, Len(name) - Len(tail) + 1, Len(name)) = tail
       THEN SubSeq(name, 1, Len(name) - Len(tail))
       ELSE name

\* the maximal runs of ASCII letters and digits of s, joined by single underscores
RECURSIVE JoinedRuns(_)
JoinedRuns(s) ==
    IF s = <<>> THEN <<>>
    ELSE IF ~IsWordChar(s[1]) THEN JoinedRuns(Tail(s))
    ELSE LET n == CHOOSE k \in 1..Len(s) :
                     /\ \A i \in 1..k : IsWordChar(s[i])
                     /\ (k = Len(s) \/ ~IsWordChar(s[k + 1]))
             rest == JoinedRuns(SubSeq(s, n + 1, Len(s)))
         IN SubSeq(s, 1, n) \o (IF rest = <<>> THEN <<>> ELSE <<"_">> \o rest)

\* what C15 says of every name, plain being the file names that are said
\* to keep their runs as they are
SanitizedAsClaimed(plain) ==
    sqlName # NoName =>
       LET filename == sanitizeArg.filename
           part == BeforeSuffix(sqlName, sanitizeArg.suffix)
           whole == sqlName = part \o <<"_">> \o sanitizeArg.suffix
                      /\ Len(JoinedRuns(filename)) + 1 + Len(sanitizeArg.suffix) <= 63
       IN /\ Len(sqlName) <= 63
          /\ sqlName # <<>> /\ (IsLetter(sqlName[1]) \/ sqlName[1] = "_")
          /\ \A i \in 1..Len(sqlName) : IsWordChar(sqlName[i]) \/ sqlName[i] = "_"
          /\ \A i \in 1..(Len(part) - 1) : ~(part[i] = "_" /\ part[i + 1] = "_")
          /\ part # <<>> => (part[1] # "_" /\ part[Len(part)] # "_")
          /\ (whole /\ filename \in plain) => part = JoinedRuns(filename)

\* the first letter or digit of the file name, if any, is no digit
NoLeadingDigitRun ==
    {filename \in FileNames :
        JoinedRuns(filename) = <<>> \/ JoinedRuns(filename)[1] \notin Digit}

\* the file name does not start with a digit
NoLeadingDigit == {filename \in FileNames : filename[1] \notin Digit}

C16_IntegersKeepTheirValue ==
    (native.t \in DOMAIN IntBits /\ converted # NotConverted) =>
       /\ converted.kind = "result"
       /\ converted.r.ok
       /\ converted.r.json = JNumber(native.i)

\* C17: the codec is total: for every native value of every variant, every
\* 32-bit day offset of a date, every 64-bit amount of a time or timestamp in
\* every unit, and nested lists, structs, maps and unions among them, the
\* conversion returns a JSON value or a typed conversion error, and never
\* panics or overflows.
C17_CodecTotal ==
    converted # NotConverted =>
       /\ converted.kind = "result"
       /\ ~arith_overflow(native)

\* generate_sql has returned for a path that has an extension
GeneratedFor(extensions) ==
    /\ sqlOut # NoSqlOut
    /\ path_extension(sqlArg.path).some
    /\ path_extension(sqlArg.path).v \in extensions

\* SQL that selects everything from a call of reader on the file path
SelectsFrom(reader) ==
    /\ sqlOut.ok
    /\ starts_with(sqlOut.sql, <<"s", "e", "l", "e", "c", "t", " ", "*", " ", "f", "r", "o", "m", " ">> \o reader \o <<"(", "'">> \o sqlArg.path \o <<"'">>)
    /\ ends_with(sqlOut.sql, <<")">>)

\* C18: generate_sql selects the format from the file extension: read_csv
\* for csv, tsv and txt, read_parquet for parquet, read_json for json, each
\* with the file path as first argument; for every other extension it fails
\* with an InvalidFormat error naming the extension, and returns no SQL.
C18_FormatFromExtension ==
    /\ GeneratedFor({Csv, Tsv, Txt}) => SelectsFrom(<<"r", "e", "a", "d", "_", "c", "s", "v">>)
    /\ GeneratedFor({Parquet}) => SelectsFrom(<<"r", "e", "a", "d", "_", "p", "a", "r", "q", "u", "e", "t">>)
    /\ GeneratedFor({Json}) => SelectsFrom(<<"r", "e", "a", "d", "_", "j", "s", "o", "n">>)
    /\ (/\ sqlOut # NoSqlOut
        /\ path_extension(sqlArg.path).some
        /\ path_extension(sqlArg.path).v \notin {Csv, Tsv, Txt, Parquet, Json}) =>
          /\ ~sqlOut.ok
          /\ sqlOut.kind = "InvalidFormat"
          /\ sqlOut.format = path_extension(sqlArg.path).v

\* /t/d.CSV was refused as format CSV
C18_Witness ==
    /\ sqlArg.path = Dir \o <<"d", ".", "C", "S", "V">>
    /\ sqlOut = InvalidFormat(<<"C", "S", "V">>)

\* key = 'value'
Rendered(key, value) == key \o <<" ", "=", " ", "'">> \o value \o <<"'">>

\* the rendered parameters of the SQL returned: the pieces between the
\* path and the closing parenthesis, separated by a comma and a space
RenderedParams ==
    LET open == CHOOSE i \in 1..Len(sqlOut.sql) :
                    sqlOut.sql[i] = "(" /\ \A j \in 1..(i - 1) : sqlOut.sql[j] # "("
        head == open + Len(sqlArg.path) + 2
        list == SubSeq(sqlOut.sql, head + 1, Len(sqlOut.sql) - 1)
        pieces == split_nonempty(list, ",")
    IN [i \in 1..Len(pieces) |->
          IF pieces[i][1] = " " THEN Tail(pieces[i]) ELSE pieces[i]]

\* C19: the parameters rendered by generate_sql are the format's defaults
\* overridden key by key by the caller's parameters: every default key the
\* caller did not supply is rendered with its default value, every caller key
\* with the caller's value, each key exactly once as key = 'value'; with
\* extension tsv and no overrides the read_csv call has header = 'true', a
\* tab delimiter, auto_detect = 'true' and sample_size = '1000'.
C19_ParamsMerged ==
    (sqlOut # NoSqlOut /\ sqlOut.ok) =>
       LET defaults == default_params(to_lowercase(path_extension(sqlArg.path).v))
           keys == DOMAIN defaults \cup DOMAIN sqlArg.params
           Times(piece) == Cardinality({i \in 1..Len(RenderedParams) : RenderedParams[i] = piece})
       IN /\ Len(RenderedParams) = Cardinality(keys)
          /\ \A k \in DOMAIN sqlArg.params : Times(Rendered(k, sqlArg.params[k])) = 1
          /\ \A k \in DOMAIN defaults \ DOMAIN sqlArg.params : Times(Rendered(k, defaults[k])) = 1
          /\ \A k \in keys :
                Cardinality({i \in 1..Len(RenderedParams) :
                               starts_with(RenderedParams[i], k \o <<" ", "=", " ", "'">>)}) = 1
          /\ (path_extension(sqlArg.path).v = Tsv /\ sqlArg.params = NoParams) =>
                Range(RenderedParams) = {<<"h", "e", "a", "d", "e", "r", " ", "=", " ", "'", "t", "r", "u", "e", "'">>, <<"d", "e", "l", "i", "m", "i", "t", "e", "r", " ", "=", " ", "'", "\t", "'">>, <<"a", "u", "t", "o", "_", "d", "e", "t", "e", "c", "t", " ", "=", " ", "'", "t", "r", "u", "e", "'">>, <<"s", "a", "m", "p", "l", "e", "_", "s", "i", "z", "e", " ", "=", " ", "'", "1", "0", "0", "0", "'">>}

\* a tsv file with the delimiter overridden and all_varchar added: five
\* parameters were rendered, the delimiter first
C19_Witness ==
    /\ sqlOut # NoSqlOut /\ sqlOut.ok
    /\ path_extension(sqlArg.path).v = Tsv
    /\ DOMAIN sqlArg.params = {DELIMITER, ALL_VARCHAR}
    /\ Len(RenderedParams) = 5
    /\ RenderedParams[1] = Rendered(DELIMITER, <<";">>)

\* the saved file is larger than the maximum of max MB, computed without
\* any width
LargerThanMaximum(len, max) ==
    limbs_gt(<<0, 0>> \o len, umul_by(<<0, 0>> \o max, <<1024, 1024>>))

\* C20: file validation is applied before SQL generation and table creation
\* in the upload flow, and it fails with a filesystem error carrying the
\* offending path exactly when the file does not exist, is empty or is larger
\* than the configured maximum size (a file of exactly the maximum size
\* passes, and with no maximum any non-empty existing file passes); when
\* validation fails, neither generate_sql nor create_table is invoked.
C20_ValidationFirst ==
    flow.log # <<>> =>
       LET refused == \/ ~upload.file.some
                      \/ upload.file.v = <<0, 0, 0, 0>>
                      \/ /\ upload.max_file_size.some
                         /\ LargerThanMaximum(upload.file.v, upload.max_file_size.v)
       IN /\ flow.pc # "panicked"
          /\ flow.log[1] = "validate"
          /\ refused => /\ flow.validate = FileSystemErr(temp_path(upload.filename))
                        /\ flow.log = <<"validate">>
                        /\ ~flow.ret.ok
          /\ ~refused => flow.validate.ok

\* the entries of the construction log that are boot statements
IsBoot(e) == e.sql.stmt = "boot"
IsFixedBoot(sql) == sql.stmt = "boot" /\ sql.n \in 1..FixedBootQueries
IsUserBoot(sql) == sql.stmt = "boot" /\ sql.n \in (FixedBootQueries + 1)..NumBootQueries

\* C21: driver construction runs the fixed install/load statements first and
\* then the caller's boot queries, each in its listed order and each only after
\* all earlier ones succeeded; the first boot statement that fails makes
\* construction fail with an execution error identifying that statement, and
\* no later boot statement and no attach is executed.
C21_BootOrder ==
    \A i \in 1..Len(newLog) :
       /\ i > 1 => newLog[i - 1].ok
       /\ i <= FixedBootQueries => IsFixedBoot(newLog[i].sql) /\ newLog[i].sql.n = i
       /\ (i > FixedBootQueries /\ i <= NumBootQueries) =>
             IsUserBoot(newLog[i].sql) /\ newLog[i].sql.n = i
       /\ i > NumBootQueries => ~IsBoot(newLog[i])
       /\ (IsBoot(newLog[i]) /\ ~newLog[i].ok) =>
             /\ i = Len(newLog)
             /\ driver \in {"failed", "down"}
             /\ newErr = DuckDBExecution(newLog[i].sql)
             /\ attachQueue = {}
             /\ \A k \in 1..Len(newLog) : newLog[k].sql.stmt # "attach"

\* construction has failed at the caller's boot query, after every fixed
\* statement succeeded
C21_Witness ==
    /\ driver = "failed"
    /\ Len(newLog) = NumBootQueries
    /\ ~newLog[Len(newLog)].ok
    /\ IsUserBoot(newErr.sql)

\* C22: if attaching any one of the dataset files found by the startup scan
\* fails, driver construction fails and no driver is returned: no driver serves
\* queries with only a subset of the scanned datasets attached.
C22_AttachFailureIsFatal ==
    /\ (\E i \in 1..Len(newLog) : newLog[i].sql.stmt = "attach" /\ ~newLog[i].ok) =>
          /\ driver \in {"failed", "down"}
          /\ newErr.kind \in {"DuckDBPrepareStatement", "DuckDBExecution"}
    /\ (driver = "up" /\ fresh) => list_db_files(files) \subseteq attached

\* construction has failed at the attach of a scanned dataset file
C22_Witness ==
    /\ driver = "failed"
    /\ newLog # <<>>
    /\ newLog[Len(newLog)].sql.stmt = "attach"
    /\ ~newLog[Len(newLog)].ok
    /\ newLog[Len(newLog)].sql.name \in list_db_files(files)

\* C23: sanitize_to_sql_name appends a random disambiguating suffix to every
\* result: for every input, whatever its length, the returned identifier ends
\* with an underscore followed by the 6-character suffix, so that two calls
\* with the same input can return different identifiers.
C23_EndsWithSuffix ==
    sqlName # NoName =>
       /\ Len(sanitizeArg.suffix) = 6
       /\ ends_with(sqlName, <<"_">> \o sanitizeArg.suffix)

\* the name before truncation: the sanitized part, an underscore, the suffix
Untruncated == sanitized_part(sanitizeArg.filename) \o <<"_">> \o sanitizeArg.suffix

\* the first k underscore-delimited segments of a name, joined by underscores
WholeSegments(name) ==
    {join(SubSeq(segments(name), 1, k)) : k \in 0..Len(segments(name))}

\* the longest sequence of leading whole segments that fits in MAX_LENGTH characters
LongestFitting(name) ==
    CHOOSE p \in WholeSegments(name) :
       /\ Len(p) <= MAX_LENGTH
       /\ \A q \in WholeSegments(name) : Len(q) <= MAX_LENGTH => Len(q) <= Len(p)

\* C24: when the suffixed name is longer than 63 characters, sanitize_to_sql_name
\* truncates it without splitting an underscore-delimited segment: the result
\* is the longest sequence of leading whole segments of the untruncated name,
\* joined by underscores, that fits in 63 characters.
C24_TruncatesAtSegments ==
    (sqlName # NoName /\ Len(Untruncated) > MAX_LENGTH) =>
       sqlName = LongestFitting(Untruncated)

\* C25: a caller never waits for a pooled connection while it holds one: at every
\* point of create_table (column introspection included), query and drop_table
\* the caller holds at most one connection, so that a create_table whose
\* statements all succeed returns its safe name for every pool size and never
\* ends with a pool error after its first statement ran.
C25_AtMostOneConnectionHeld ==
    \A c \in Callers :
       /\ Cardinality(Held(c)) <= 1
       /\ WaitsForConn(c) => Held(c) = {}
       /\ (call[c].op = "create_table" /\ call[c].ret.status = "err"
             /\ call[c].log # <<>> /\ \A i \in 1..Len(call[c].log) : call[c].log[i].ok)
            => call[c].ret.err # DuckDBPool

\* a create_table of s is under way
BeingCreated(s) ==
    \E d \in Callers : call[d].op = "create_table" /\ Running(d) /\ call[d].safe = s

\* C26: a create_table that failed at any step leaves no new alias attached and
\* no new <safe_name>.db file: after a failed create_table of s, while no
\* create_table of s has succeeded or is under way, s is not attached and s.db is
\* not in the storage directory.
C26_FailedCreateLeavesNothing ==
    \A c \in Callers :
       (/\ call[c].op = "create_table"
        /\ call[c].pc = "returned"
        /\ call[c].ret.status = "err"
        /\ call[c].safe \notin live
        /\ ~BeingCreated(call[c].safe)) =>
           /\ call[c].safe \notin attached
           /\ db_file(call[c].safe) \notin files

\* C27: after drop_table(s) has returned success, alias s is not attached: in no
\* state has drop_table deleted the file of a created dataset s (and no
\* create_table has asked for s again) while alias s is still attached.
C27_DroppedAliasDetached ==
    \A s \in dropped : s \notin attached

\* C28: after an upload request has finished, with success or with an error at
\* any step, the dataset that the request created in the OLAP driver has a
\* metadata record in the DatasetStore whose name is the safe name returned by
\* create_table.
C28_CreatedDatasetHasRecord ==
    (flow.pc = "returned" /\ flow.table.some /\ flow.table.v \in datasets) =>
       \E r \in store : r.name = flow.table.v

DeleteSteps == <<"details", "drop_table", "store_delete">>

\* the calls of the delete request under way or finished are the first calls of
\* the handler, in its order, each made only after the earlier ones succeeded
DeleteInOrder ==
    /\ Len(deletion.log) <= Len(DeleteSteps)
    /\ \A i \in 1..Len(deletion.log) :
          /\ deletion.log[i].call = DeleteSteps[i]
          /\ i < Len(deletion.log) => deletion.log[i].ok
    /\ deletion.pc = "returned" =>
          (deletion.ret.ok <=> (Len(deletion.log) = Len(DeleteSteps) /\ deletion.log[3].ok))

\* C29: the delete handler looks up the record, then drops the table, then
\* deletes the record: an unknown id returns NotFound with neither drop_table
\* nor store.delete called; no step of a delete whose drop_table failed changes
\* the store; a record leaves the store only in the handler's store.delete,
\* after its drop_table succeeded and with its backing file removed.
C29_DeleteOrder ==
    [][/\ DeleteInOrder'
       /\ (deletion'.n # deletion.n /\ \A r \in store : r.id # deletion'.id) =>
             /\ deletion'.pc = "returned"
             /\ Len(deletion'.log) = 1
             /\ deletion'.log[1].ok => deletion'.ret = ServerError("NotFound")
       /\ store' \subseteq store \/ deletion' = deletion
       /\ \A r \in store \ store' :
             /\ deletion.pc = "store_delete"
             /\ r.id = deletion.id
             /\ deletion.log[2] = [call |-> "drop_table", ok |-> TRUE]
             /\ r.name \notin datasets'
       /\ (Len(deletion'.log) >= 2 /\ ~deletion'.log[2].ok) =>
             (store' = store \/ deletion'.n # deletion.n)]_vars

\* a second delete of a record whose file the first delete removed has returned:
\* its drop_table failed and the record is still in the store
C29_Witness ==
    /\ deletion.pc = "returned"
    /\ deletion.n = 2
    /\ Len(deletion.log) = 2
    /\ ~deletion.log[2].ok
    /\ \E r \in store : r.id = deletion.id /\ r.name \notin datasets

\* C30: format detection and reader selection agree on every extension:
\* whenever FileFormat::from_extension accepts the extension of the file,
\* generate_sql returns SQL, and generate_sql fails with InvalidFormat only
\* for an extension that from_extension rejects.
C30_DetectionAndReaderAgree ==
    (sqlOut # NoSqlOut /\ path_extension(sqlArg.path).some) =>
       /\ from_extension(path_extension(sqlArg.path).v).some => sqlOut.ok
       /\ (~sqlOut.ok /\ sqlOut.kind = "InvalidFormat") =>
             ~from_extension(path_extension(sqlArg.path).v).some
====
